---- MODULE Spec2Model ----
(***************************************************************************)
(* A model of the WebSocket/UDP relay of main.go: the Hub (registry of     *)
(* rooms), Room (membership set and fan-out), Client (one connection with  *)
(* a reader loop, a bounded outbound channel and a writer goroutine) and   *)
(* the UDP relay (peer table, datagram forwarding, injection into rooms).  *)
(*                                                                         *)
(* Go strings and byte slices are sequences of one-character strings.      *)
(* Goroutines are processes: process 0 is the UDP relay loop, process c in *)
(* 1..NConn is the HTTP handler goroutine of the c-th request (the reader  *)
(* loop of its client), and every client has a writer goroutine with its   *)
(* own control point wpc[c].  Mutexes are state: every Lock/RLock/Unlock   *)
(* of the source is a step of its own or ends a step.                      *)
(***************************************************************************)
EXTENDS Integers, Sequences, FiniteSets, TLC

\* ------------------------------------------------------------- bounds
NConn == 3          \* HTTP requests (connections) that arrive
NConnRelay == 2     \* of them, those that arrive while the UDP loop runs
NConnBridge == 1    \* of them, those that arrive while the UDP loop takes headers
MaxFrames == 2      \* frames read from all stream connections together
MaxFramesRelay == 1 \* of them, those read while the UDP loop runs
MaxDatagrams == 2   \* datagrams received by the UDP relay
MaxDatagramsPeers == 3  \* datagrams the UDP loop receives when peers change address
MaxFaults == 1      \* transport errors (read errors, write errors) that strike
MaxRejects == 1     \* requests answered without an upgrade (404, 204, 400)
MaxClock == 1       \* largest value time.Now().UnixNano() reaches
QueueCap == 2       \* capacity of sendCh (256 in main.go:133), scaled down
MaxPayloadLen == 4  \* longest payload followed through the JSON encoding
MaxParts == 3       \* most parts a generated header line has

Conns == 1..NConn
UDP == 0
Procs == {UDP} \cup Conns
None == -1

\* ------------------------------------------------------------- strings
Lower == <<"a","b","c","d","e","f","g","h","i","j","k","l","m",
           "n","o","p","q","r","s","t","u","v","w","x","y","z">>
Upper == <<"A","B","C","D","E","F","G","H","I","J","K","L","M",
           "N","O","P","Q","R","S","T","U","V","W","X","Y","Z">>

\* unicode.ToUpper on one character
ToUpperCh(ch) ==
    IF \E i \in 1..Len(Lower) : Lower[i] = ch
    THEN Upper[CHOOSE i \in 1..Len(Lower) : Lower[i] = ch]
    ELSE ch

\* an upper-casing that leaves every letter as it is
ToUpperNone(s) == s

\* strings.ToUpper
ToUpper(s) == [i \in 1..Len(s) |-> ToUpperCh(s[i])]

\* unicode.IsSpace, on the characters a datagram or a path can hold
IsSpace(ch) == ch \in {" ", "\t", "\n", "\r"}

\* strings.TrimFunc, both ends, for a set of characters
RECURSIVE TrimLeftSet(_, _)
TrimLeftSet(s, cut) ==
    IF s # <<>> /\ Head(s) \in cut THEN TrimLeftSet(Tail(s), cut) ELSE s

RECURSIVE TrimRightSet(_, _)
TrimRightSet(s, cut) ==
    IF s # <<>> /\ s[Len(s)] \in cut
    THEN TrimRightSet(SubSeq(s, 1, Len(s) - 1), cut)
    ELSE s

\* strings.Trim(s, cutset)
Trim(s, cut) == TrimRightSet(TrimLeftSet(s, cut), cut)

\* strings.TrimSpace
TrimSpace(s) == Trim(s, {" ", "\t", "\n", "\r"})

\* strings.Index(s, ch) for a one-character separator: the first position
\* (1-based) of ch in s, 0 when absent (Go: -1)
Index(s, ch) ==
    IF \E i \in 1..Len(s) : s[i] = ch
    THEN CHOOSE i \in 1..Len(s) : s[i] = ch /\ \A j \in 1..(i - 1) : s[j] # ch
    ELSE 0

\* strings.Split(s, sep) for a one-character separator
RECURSIVE Split(_, _)
Split(s, sep) ==
    LET i == Index(s, sep)
    IN  IF i = 0 THEN <<s>>
        ELSE <<SubSeq(s, 1, i - 1)>> \o Split(SubSeq(s, i + 1, Len(s)), sep)

\* strings.SplitN(s, sep, 2)
SplitN2(s, sep) ==
    LET i == Index(s, sep)
    IN  IF i = 0 THEN <<s>>
        ELSE <<SubSeq(s, 1, i - 1), SubSeq(s, i + 1, Len(s))>>

\* strings.TrimPrefix
TrimPrefix(s, p) ==
    IF Len(s) >= Len(p) /\ SubSeq(s, 1, Len(p)) = p
    THEN SubSeq(s, Len(p) + 1, Len(s))
    ELSE s

Digits == <<"0","1","2","3","4","5","6","7","8","9">>

\* fmt's %d of a non-negative integer
RECURSIVE Itoa(_)
Itoa(n) == IF n < 10 THEN <<Digits[n + 1]>> ELSE Itoa(n \div 10) \o <<Digits[(n % 10) + 1]>>

\* the string constants of the source
StrGlobal == <<"g","l","o","b","a","l">>
StrAnon == <<"a","n","o","n","-">>
StrUdp == <<"u","d","p","-">>
StrRoomKey == <<"R","O","O","M">>
StrUserKey == <<"U","S","E","R">>
StrWs == <<"/","w","s">>

\* ------------------------------------------------------------- parsing
\* the filter loop of splitTrim: drop the empty pieces
RECURSIVE FilterNonEmpty(_)
FilterNonEmpty(ps) ==
    IF ps = <<>> THEN <<>>
    ELSE IF Head(ps) = <<>> THEN FilterNonEmpty(Tail(ps))
    ELSE <<Head(ps)>> \o FilterNonEmpty(Tail(ps))

\* splitTrim(s, sep): cut at sep, trim "/" and " " off every piece, keep the
\* last piece only when the builder holds something, drop the empty pieces
splitTrim(s, sep) ==
    LET t == TrimSpace(s)
        raw == Split(t, sep)
        n == Len(raw)
        out == [i \in 1..(IF raw[n] = <<>> THEN n - 1 ELSE n) |->
                    Trim(raw[i], {"/", " "})]
    IN  IF t = <<>> THEN <<>> ELSE FilterNonEmpty(out)

\* the header loop of parseUDPFrame: later parts overwrite earlier ones
RECURSIVE ParseHeader(_, _, _)
ParseHeader(parts, room, user) ==
    IF parts = <<>> THEN [room |-> room, user |-> user]
    ELSE LET kv == SplitN2(TrimSpace(Head(parts)), ":")
         IN  IF Len(kv) # 2 THEN ParseHeader(Tail(parts), room, user)
             ELSE LET k == ToUpper(TrimSpace(kv[1]))
                      v == TrimSpace(kv[2])
                  IN  IF k = StrRoomKey THEN ParseHeader(Tail(parts), v, user)
                      ELSE IF k = StrUserKey THEN ParseHeader(Tail(parts), room, v)
                      ELSE ParseHeader(Tail(parts), room, user)

\* a parse that takes a header naming neither room nor user for payload
parseUDPFrameStrict(b) ==
    LET i == Index(b, "\n")
    IN  IF i > 0
        THEN LET h == ParseHeader(Split(SubSeq(b, 1, i - 1), ";"), <<>>, <<>>)
             IN  IF h.room = <<>> /\ h.user = <<>>
                 THEN [room |-> <<>>, user |-> <<>>, payload |-> b]
                 ELSE [room |-> h.room, user |-> h.user,
                       payload |-> SubSeq(b, i + 1, Len(b))]
        ELSE [room |-> <<>>, user |-> <<>>, payload |-> b]

\* a parse that returns no payload for a datagram without a header line
parseUDPFrameNoPayload(b) ==
    LET i == Index(b, "\n")
    IN  IF i > 0
        THEN LET h == ParseHeader(Split(SubSeq(b, 1, i - 1), ";"), <<>>, <<>>)
             IN  [room |-> h.room, user |-> h.user, payload |-> SubSeq(b, i + 1, Len(b))]
        ELSE [room |-> <<>>, user |-> <<>>, payload |-> <<>>]

\* a parse that leaves the header in the payload
parseUDPFrameKeepHeader(b) ==
    LET i == Index(b, "\n")
    IN  IF i > 0
        THEN LET h == ParseHeader(Split(SubSeq(b, 1, i - 1), ";"), <<>>, <<>>)
             IN  [room |-> h.room, user |-> h.user, payload |-> b]
        ELSE [room |-> <<>>, user |-> <<>>, payload |-> b]

parseUDPFrame(b) ==
    LET i == Index(b, "\n")
    IN  IF i > 0
        THEN LET h == ParseHeader(Split(SubSeq(b, 1, i - 1), ";"), <<>>, <<>>)
             IN  [room |-> h.room, user |-> h.user, payload |-> SubSeq(b, i + 1, Len(b))]
        ELSE [room |-> <<>>, user |-> <<>>, payload |-> b]

\* MarshalEnvelope: the JSON object written for an Envelope, by its fields
MarshalEnvelope(room, user, ts, payload) ==
    [room |-> room, username |-> user, ts |-> ts, payload |-> payload]


\* ------------------------------------------------------------- JSON
\* encoding/base64 StdEncoding: the alphabet
B64 == Upper \o Lower \o Digits \o <<"+", "/">>

\* base64.StdEncoding.EncodeToString on bytes given by their values 0..255
RECURSIVE Base64Encode(_)
Base64Encode(bs) ==
    IF bs = <<>> THEN <<>>
    ELSE IF Len(bs) = 1
    THEN <<B64[(bs[1] \div 4) + 1], B64[((bs[1] % 4) * 16) + 1], "=", "=">>
    ELSE IF Len(bs) = 2
    THEN <<B64[(bs[1] \div 4) + 1],
           B64[((bs[1] % 4) * 16 + bs[2] \div 16) + 1],
           B64[((bs[2] % 16) * 4) + 1], "=">>
    ELSE <<B64[(bs[1] \div 4) + 1],
           B64[((bs[1] % 4) * 16 + bs[2] \div 16) + 1],
           B64[((bs[2] % 16) * 4 + bs[3] \div 64) + 1],
           B64[(bs[3] % 64) + 1]>> \o Base64Encode(SubSeq(bs, 4, Len(bs)))

\* base64.StdEncoding.DecodeString: the bytes, or a failure on text that is
\* not padded base64
RECURSIVE Base64Decode(_)
Base64Decode(t) ==
    IF t = <<>> THEN [ok |-> TRUE, bytes |-> <<>>]
    ELSE IF Len(t) < 4 THEN [ok |-> FALSE, bytes |-> <<>>]
    ELSE LET v == [k \in 1..4 |-> Index(B64, t[k]) - 1]
             last == Len(t) = 4
             rest == Base64Decode(SubSeq(t, 5, Len(t)))
         IN  IF v[1] < 0 \/ v[2] < 0 THEN [ok |-> FALSE, bytes |-> <<>>]
             ELSE IF last /\ t[3] = "=" /\ t[4] = "="
             THEN [ok |-> TRUE, bytes |-> <<v[1] * 4 + v[2] \div 16>>]
             ELSE IF v[3] < 0 THEN [ok |-> FALSE, bytes |-> <<>>]
             ELSE IF last /\ t[4] = "="
             THEN [ok |-> TRUE,
                   bytes |-> <<v[1] * 4 + v[2] \div 16,
                               (v[2] % 16) * 16 + v[3] \div 4>>]
             ELSE IF v[4] < 0 THEN [ok |-> FALSE, bytes |-> <<>>]
             ELSE [ok |-> rest.ok,
                   bytes |-> <<v[1] * 4 + v[2] \div 16,
                               (v[2] % 16) * 16 + v[3] \div 4,
                               (v[3] % 4) * 64 + v[4]>> \o rest.bytes]

\* a field of type string holding the bytes as they are: json.Marshal
\* writes the ASCII ones as text and U+FFFD for every byte that is not
\* valid UTF-8
BytesAsText(bs) ==
    [i \in 1..Len(bs) |-> IF bs[i] \in 65..90 THEN Upper[bs[i] - 64] ELSE "?"]

\* json.Marshal of a []byte field: the base64 text of the bytes
EncodeBytes(bs) == Base64Encode(bs)

HexDigits == <<"0","1","2","3","4","5","6","7","8","9","a","b","c","d","e","f">>

\* the characters json.Marshal writes as \u00XX, with their code points
EscapedCodes == [ch \in {"<", ">", "&"} |->
                    IF ch = "<" THEN 60 ELSE IF ch = ">" THEN 62 ELSE 38]

\* json.Marshal of one character of a string (HTML escaping is on)
EscapeCh(ch) ==
    IF ch = "\"" THEN <<"\\", "\"">>
    ELSE IF ch = "\\" THEN <<"\\", "\\">>
    ELSE IF ch = "\n" THEN <<"\\", "n">>
    ELSE IF ch = "\r" THEN <<"\\", "r">>
    ELSE IF ch = "\t" THEN <<"\\", "t">>
    ELSE IF ch \in DOMAIN EscapedCodes
    THEN <<"\\", "u", "0", "0", HexDigits[(EscapedCodes[ch] \div 16) + 1],
           HexDigits[(EscapedCodes[ch] % 16) + 1]>>
    ELSE <<ch>>

\* json.Marshal of a string, without the quotes
RECURSIVE EscapeString(_)
EscapeString(str) ==
    IF str = <<>> THEN <<>> ELSE EscapeCh(Head(str)) \o EscapeString(Tail(str))

Quoted(t) == <<"\"">> \o t \o <<"\"">>

\* json.Marshal(Envelope{...}): the fields in declaration order under
\* their json tags
MarshalJSON(room, user, ts, payload) ==
    <<"{">> \o Quoted(<<"r","o","o","m">>) \o <<":">> \o Quoted(EscapeString(room))
    \o <<",">> \o Quoted(<<"u","s","e","r","n","a","m","e">>) \o <<":">>
    \o Quoted(EscapeString(user))
    \o <<",">> \o Quoted(<<"t","s">>) \o <<":">> \o Itoa(ts)
    \o <<",">> \o Quoted(<<"p","a","y","l","o","a","d">>) \o <<":">>
    \o Quoted(EncodeBytes(payload)) \o <<"}">>

\* json.Unmarshal: a failed parse
JsonFail == [ok |-> FALSE, val |-> <<>>, next |-> 0]

\* the character an escape stands for: w[i] is the backslash
Unescape(w, i) ==
    IF i + 1 > Len(w) THEN JsonFail
    ELSE LET e == w[i + 1]
         IN  IF e \in {"\"", "\\", "/"} THEN [ok |-> TRUE, val |-> e, next |-> i + 2]
             ELSE IF e = "n" THEN [ok |-> TRUE, val |-> "\n", next |-> i + 2]
             ELSE IF e = "r" THEN [ok |-> TRUE, val |-> "\r", next |-> i + 2]
             ELSE IF e = "t" THEN [ok |-> TRUE, val |-> "\t", next |-> i + 2]
             ELSE IF e = "u" /\ i + 5 <= Len(w)
                     /\ \A k \in 2..5 : Index(HexDigits, w[i + k]) > 0
             THEN LET h == [k \in 2..5 |-> Index(HexDigits, w[i + k]) - 1]
                      code == ((h[2] * 16 + h[3]) * 16 + h[4]) * 16 + h[5]
                  IN  IF \E ch \in DOMAIN EscapedCodes : EscapedCodes[ch] = code
                      THEN [ok |-> TRUE,
                            val |-> CHOOSE ch \in DOMAIN EscapedCodes :
                                       EscapedCodes[ch] = code,
                            next |-> i + 6]
                      ELSE JsonFail
             ELSE JsonFail

\* the characters of a JSON string up to its closing quote, from w[i] on
RECURSIVE ReadString(_, _, _)
ReadString(w, i, acc) ==
    IF i > Len(w) THEN JsonFail
    ELSE IF w[i] = "\"" THEN [ok |-> TRUE, val |-> acc, next |-> i + 1]
    ELSE IF w[i] = "\\"
    THEN LET u == Unescape(w, i)
         IN  IF u.ok THEN ReadString(w, u.next, Append(acc, u.val)) ELSE JsonFail
    ELSE ReadString(w, i + 1, Append(acc, w[i]))

\* a JSON string that starts at w[i]
ParseString(w, i) ==
    IF i <= Len(w) /\ w[i] = "\"" THEN ReadString(w, i + 1, <<>>) ELSE JsonFail

\* the digits of a JSON number from w[i] on
RECURSIVE ReadInt(_, _, _)
ReadInt(w, i, n) ==
    IF i <= Len(w) /\ Index(Digits, w[i]) > 0
    THEN ReadInt(w, i + 1, n * 10 + Index(Digits, w[i]) - 1)
    ELSE [ok |-> TRUE, val |-> n, next |-> i]

\* a JSON number (no sign, no fraction: an int64 timestamp) at w[i]
ParseInt(w, i) ==
    IF i <= Len(w) /\ Index(Digits, w[i]) > 0 THEN ReadInt(w, i, 0) ELSE JsonFail

\* the Envelope before Unmarshal fills it in
ZeroEnvelope == [ok |-> TRUE, room |-> <<>>, username |-> <<>>, ts |-> 0, payload |-> <<>>]

BadEnvelope == [ZeroEnvelope EXCEPT !.ok = FALSE]

\* json.Unmarshal into an Envelope: the members of the object from w[i] on
RECURSIVE ParseMembers(_, _, _)
ParseMembers(w, i, env) ==
    LET key == ParseString(w, i)
    IN  IF ~key.ok \/ key.next > Len(w) \/ w[key.next] # ":" THEN BadEnvelope
        ELSE LET j == key.next + 1
                 isTs == key.val = <<"t","s">>
                 v == IF isTs THEN ParseInt(w, j) ELSE ParseString(w, j)
                 b == IF key.val = <<"p","a","y","l","o","a","d">> /\ v.ok
                      THEN Base64Decode(v.val) ELSE [ok |-> TRUE, bytes |-> <<>>]
                 filled ==
                     IF key.val = <<"r","o","o","m">> THEN [env EXCEPT !.room = v.val]
                     ELSE IF key.val = <<"u","s","e","r","n","a","m","e">>
                     THEN [env EXCEPT !.username = v.val]
                     ELSE IF isTs THEN [env EXCEPT !.ts = v.val]
                     ELSE IF key.val = <<"p","a","y","l","o","a","d">>
                     THEN [env EXCEPT !.payload = b.bytes]
                     ELSE env
             IN  IF ~v.ok \/ ~b.ok \/ v.next > Len(w) THEN BadEnvelope
                 ELSE IF w[v.next] = "," THEN ParseMembers(w, v.next + 1, filled)
                 ELSE IF w[v.next] = "}" /\ v.next = Len(w) THEN filled
                 ELSE BadEnvelope

\* var env Envelope; json.Unmarshal(msg, &env)
UnmarshalJSON(w) ==
    IF w # <<>> /\ w[1] = "{" THEN ParseMembers(w, 2, ZeroEnvelope) ELSE BadEnvelope

\* ------------------------------------------------------------- inputs
\* request paths and methods that reach the server
PathWs == <<"/","w","s">>
PathWsAlphaBob == <<"/","w","s","/","a","l","p","h","a","/","b","o","b">>
Paths == {PathWs, PathWsAlphaBob}
Methods == {"GET", "OPTIONS"}

\* frames a stream client sends
FramePing == <<"p","i","n","g">>
Frames == {FramePing}

\* datagrams and the remote addresses they come from
DgBob == <<"R","O","O","M",":","a","l","p","h","a",";","U","S","E","R",":","b","o","b","\n","h","i">>
DgCarol == <<"R","O","O","M",":","a","l","p","h","a",";","U","S","E","R",":","c","a","r","o","l","\n","y","o">>
DgRaw == <<"r","a","w">>
\* datagrams whose header line is malformed: a part without a colon, an
\* unknown key, empty ROOM and USER values
DgNoColon == <<"j","u","n","k","\n","x">>
DgUnknownKey == <<"F","O","O",":","b","a","r","\n","y">>
DgEmptyValues == <<"R","O","O","M",":",";","U","S","E","R",":"," ","\n","z">>
UdpInputsMalformed ==
    {<<"addr1", DgNoColon>>, <<"addr2", DgUnknownKey>>, <<"addr2", DgEmptyValues>>}
\* a received datagram: the remote address and the bytes
UdpInputs == {<<"addr1", DgBob>>, <<"addr2", DgCarol>>, <<"addr2", DgRaw>>}
\* of them, the datagrams that land in the room the stream clients are in
UdpInputsGlobal == {<<"addr2", DgRaw>>}

\* ------------------------------------------------------------- state
VARIABLES
    clock,      \* the wall clock read by time.Now()
    status,     \* status[c]: HTTP status answered to request c, 0 before
    pc,         \* pc[p]: control point of the handler goroutines and the UDP loop
    wpc,        \* wpc[c]: control point of client c's writer goroutine
    hubMu,      \* Hub.mu: the goroutine holding it, or None
    hubRooms,   \* Hub.rooms: room name -> Room instance
    rooms,      \* the Room instances ever allocated: [name, clients]
    roomMu,     \* Room.mu of every instance: [w: writer, r: readers, q: waiting writers]
    cUser,      \* Client.username
    cRoom,      \* Client.room (0 while no Client exists for the request)
    sendCh,     \* Client.sendCh: the buffered channel's content
    chClosed,   \* number of close(client.sendCh) calls
    connClosed, \* number of client.conn.Close() calls
    lName,      \* local roomName of each goroutine
    lUser,      \* local username of each goroutine
    lFound,     \* getRoom: the instance found by the lookup, 0 when !ok
    lRoom,      \* the Room returned by getRoom
    lMsg,       \* the envelope being broadcast
    lTodo,      \* broadcast: members the range loop has still to visit
    lSnap,      \* broadcast: the member set when the range loop began (history)
    lEnq,       \* broadcast: recipients whose channel took the envelope (history)
    lDrop,      \* broadcast: recipients whose channel was full when offered (history)
    peerMu,     \* the peer registry's mu
    peers,      \* the peer registry: room -> username -> [addr, last]
    uRemote,    \* UDP loop: remote address of the datagram in hand
    uPayload,   \* UDP loop: payload of the datagram in hand
    uTodo,      \* UDP loop: usernames the forward loop has still to visit
    uSent,      \* UDP loop: WriteToUDP calls made for the datagram in hand (history)
    udpClosed,  \* number of conn.Close() calls on the UDP socket
    nFrames,    \* frames read so far, all connections together (history)
    frameSeq,   \* frameSeq[c]: the envelopes built from the frames read from
                \* connection c, in order (history)
    written,    \* written[c]: messages written to connection c (history)
    wErr,       \* wErr[c]: a WriteMessage on connection c failed (history)
    dgLog,      \* datagrams received, in order (history)
    udpOut,     \* WriteToUDP calls, in order (history)
    injLog,     \* broadcasts made by the UDP loop, in order (history)
    nFaults,    \* transport errors so far (history)
    nRejects,   \* requests answered without an upgrade so far (history)
    reqPath,    \* reqPath[c]: the URL path of request c, <<>> before (history)
    sendOnClosed, \* a send on a closed channel happened (Go panics)
    codec,      \* an envelope on its way through json.Marshal and json.Unmarshal
    parsed      \* a datagram on its way through parseUDPFrame

hubVars == <<hubMu, hubRooms, rooms, roomMu>>
clientVars == <<cUser, cRoom, sendCh, chClosed, connClosed>>
localVars == <<lName, lUser, lFound, lRoom, lMsg, lTodo, lSnap, lEnq, lDrop>>
udpVars == <<peerMu, peers, uRemote, uPayload, uTodo, uSent, udpClosed>>
histVars == <<nFrames, frameSeq, written, wErr, dgLog, udpOut, injLog, nFaults,
              nRejects, reqPath, sendOnClosed>>
\* the state of the relay
relayVars == <<clock, status, pc, wpc, hubVars, clientVars, localVars, udpVars, histVars>>

vars == <<relayVars, codec, parsed>>

\* main after NewHub() and StartUDPRelay: the UDP loop is at its first
\* ReadFromUDP ("uread"), or was never started because StartUDPRelay
\* returned an error ("off"); no request has arrived
RelayInit(udp) ==
    /\ clock = 0
    /\ status = [c \in Conns |-> 0]
    /\ pc = [p \in Procs |-> IF p = UDP THEN udp ELSE "idle"]
    /\ wpc = [c \in Conns |-> "off"]
    /\ hubMu = None
    /\ hubRooms = <<>>
    /\ rooms = <<>>
    /\ roomMu = <<>>
    /\ cUser = [c \in Conns |-> <<>>]
    /\ cRoom = [c \in Conns |-> 0]
    /\ sendCh = [c \in Conns |-> <<>>]
    /\ chClosed = [c \in Conns |-> 0]
    /\ connClosed = [c \in Conns |-> 0]
    /\ lName = [p \in Procs |-> <<>>]
    /\ lUser = [p \in Procs |-> <<>>]
    /\ lFound = [p \in Procs |-> 0]
    /\ lRoom = [p \in Procs |-> 0]
    /\ lMsg = [p \in Procs |-> <<>>]
    /\ lTodo = [p \in Procs |-> {}]
    /\ lSnap = [p \in Procs |-> {}]
    /\ lEnq = [p \in Procs |-> {}]
    /\ lDrop = [p \in Procs |-> {}]
    /\ peerMu = None
    /\ peers = <<>>
    /\ uRemote = ""
    /\ uPayload = <<>>
    /\ uTodo = {}
    /\ uSent = <<>>
    /\ udpClosed = 0
    /\ nFrames = 0
    /\ frameSeq = [c \in Conns |-> <<>>]
    /\ written = [c \in Conns |-> <<>>]
    /\ wErr = [c \in Conns |-> FALSE]
    /\ dgLog = <<>>
    /\ udpOut = <<>>
    /\ injLog = <<>>
    /\ nFaults = 0
    /\ nRejects = 0
    /\ reqPath = [c \in Conns |-> <<>>]
    /\ sendOnClosed = FALSE

\* no envelope is being followed through the encoding
CodecOff == [phase |-> "off", room |-> <<>>, user |-> <<>>, ts |-> 0,
             payload |-> <<>>, wire |-> <<>>, out |-> ZeroEnvelope]

\* no datagram is being followed through the parser
ParsedOff == [phase |-> "off", parts |-> <<>>, brk |-> FALSE, payload |-> <<>>,
              data |-> <<>>, out |-> [room |-> <<>>, user |-> <<>>, payload |-> <<>>]]

InitAt(udp) == RelayInit(udp) /\ codec = CodecOff /\ parsed = ParsedOff

Init == InitAt("uread")

\* time.Now().UnixNano() where a username is generated from it (main.go:114,
\* main.go:221): the clock may have moved on by a tick since the last such
\* call, or not.  The other calls (Envelope.Ts, peer.last) read the clock as
\* it stands: the relay never looks at what they stored.
NowSet == {t \in {clock, clock + 1} : t <= MaxClock}

\* ------------------------------------------------------------- HTTP
\* http.HandleFunc("/ws", ...): a pattern without a trailing slash names
\* one fixed path
ServeMuxMatch(path) == path = StrWs

\* the path parsing of HandleWebSocket: room and username of a request
PathRoom(path) ==
    LET parts == splitTrim(TrimPrefix(path, StrWs), "/")
    IN  IF Len(parts) >= 1 /\ parts[1] # <<>> THEN parts[1] ELSE StrGlobal

PathUser(path, t) ==
    LET parts == splitTrim(TrimPrefix(path, StrWs), "/")
    IN  IF Len(parts) >= 2 /\ parts[2] # <<>> THEN parts[2] ELSE StrAnon \o Itoa(t)

\* a request the mux has no handler for: 404
RequestNotFound(c, path) ==
    /\ pc[c] = "idle"
    /\ c = 1 \/ pc[c - 1] # "idle"
    /\ ~ServeMuxMatch(path)
    /\ nRejects < MaxRejects
    /\ nRejects' = nRejects + 1
    /\ reqPath' = [reqPath EXCEPT ![c] = path]
    /\ UNCHANGED <<codec, parsed>>
    /\ status' = [status EXCEPT ![c] = 404]
    /\ pc' = [pc EXCEPT ![c] = "done"]
    /\ UNCHANGED <<clock, wpc, hubVars, clientVars, localVars, udpVars, nFrames,
                   frameSeq, written, wErr, dgLog, udpOut, injLog, nFaults,
                   sendOnClosed>>

\* HandleWebSocket up to the upgrade: OPTIONS is answered 204, a failed
\* upgrade 400, and a successful one goes on to hub.getRoom(roomName)
Request(c, method, path, upgraded) ==
    /\ pc[c] = "idle"
    /\ c = 1 \/ pc[c - 1] # "idle"
    /\ ServeMuxMatch(path)
    /\ (method = "OPTIONS" \/ ~upgraded) => nRejects < MaxRejects
    /\ nRejects' = IF method = "OPTIONS" \/ ~upgraded THEN nRejects + 1 ELSE nRejects
    /\ reqPath' = [reqPath EXCEPT ![c] = path]
    /\ UNCHANGED <<codec, parsed>>
    /\ IF method = "OPTIONS"
       THEN /\ status' = [status EXCEPT ![c] = 204]
            /\ pc' = [pc EXCEPT ![c] = "done"]
            /\ UNCHANGED <<clock, lName, lUser>>
       ELSE \E t \in NowSet :
            /\ clock' = t
            /\ IF upgraded
               THEN /\ status' = [status EXCEPT ![c] = 101]
                    /\ pc' = [pc EXCEPT ![c] = "getRoom"]
                    /\ lName' = [lName EXCEPT ![c] = PathRoom(path)]
                    /\ lUser' = [lUser EXCEPT ![c] = PathUser(path, t)]
               ELSE /\ status' = [status EXCEPT ![c] = 400]
                    /\ pc' = [pc EXCEPT ![c] = "done"]
                    /\ UNCHANGED <<lName, lUser>>
    /\ UNCHANGED <<wpc, hubVars, clientVars, lFound, lRoom, lMsg, lTodo, lSnap,
                   lEnq, lDrop, udpVars, nFrames, frameSeq, written, wErr, dgLog,
                   udpOut, injLog, nFaults, sendOnClosed>>

\* ------------------------------------------------------------- locks
\* a Lock that never waits
MutexFreeAlways(m) == TRUE

\* sync.Mutex: Lock returns only when nobody holds the mutex
MutexFree(m) == m = None

\* a lock whose Lock does not wait for the readers to leave
RWCanLockOverReaders(l) == l.w = None

\* sync.RWMutex: Lock returns only when no writer and no reader holds it
RWCanLock(l) == l.w = None /\ l.r = {}

\* an RLock that does not wait for the writer
RWCanRLockOverWriter(l) == TRUE

\* sync.RWMutex: RLock returns only when no writer holds it and no writer
\* is waiting in Lock (a blocked Lock call excludes new readers)
RWCanRLock(l) == l.w = None /\ l.q = {}

NewRWMutex == [w |-> None, r |-> {}, q |-> {}]

\* Lock() by goroutine p: taken at once when free, else p waits in Lock
RWLock(l, p) ==
    IF RWCanLock(l) THEN [l EXCEPT !.w = p, !.q = @ \ {p}]
    ELSE [l EXCEPT !.q = @ \cup {p}]

RWUnlock(l) == [l EXCEPT !.w = None]
RWRLock(l, p) == [l EXCEPT !.r = @ \cup {p}]
\* an RUnlock that leaves the reader in
RWRUnlockKeep(l, p) == l

RWRUnlock(l, p) == [l EXCEPT !.r = @ \ {p}]

\* ------------------------------------------------------------- Hub.getRoom
\* h.mu.Lock(); r, ok := h.rooms[name]
GetRoomLock(p) ==
    /\ pc[p] = "getRoom"
    /\ MutexFree(hubMu)
    /\ hubMu' = p
    /\ lFound' = [lFound EXCEPT ![p] =
                    IF lName[p] \in DOMAIN hubRooms THEN hubRooms[lName[p]] ELSE 0]
    /\ pc' = [pc EXCEPT ![p] = "getRoomRet"]
    /\ UNCHANGED <<clock, status, wpc, hubRooms, rooms, roomMu, clientVars, lName,
                   lUser, lRoom, lMsg, lTodo, lSnap, lEnq, lDrop, udpVars, histVars, codec, parsed>>

\* if !ok { r = &Room{...}; h.rooms[name] = r }; return r (deferred Unlock).
\* The handler goes on to build its Client (main.go:129-134), the UDP loop
\* to broadcast.
GetRoomReturn(p) ==
    /\ pc[p] = "getRoomRet"
    /\ LET fresh == lFound[p] = 0
           r == IF fresh THEN Len(rooms) + 1 ELSE lFound[p]
       IN  /\ rooms' = IF fresh
                       THEN Append(rooms, [name |-> lName[p], clients |-> {}])
                       ELSE rooms
           /\ roomMu' = IF fresh THEN Append(roomMu, NewRWMutex) ELSE roomMu
           /\ hubRooms' = IF fresh
                          THEN [n \in DOMAIN hubRooms \cup {lName[p]} |->
                                   IF n = lName[p] THEN r ELSE hubRooms[n]]
                          ELSE hubRooms
           /\ lRoom' = [lRoom EXCEPT ![p] = r]
           /\ IF p = UDP
              THEN UNCHANGED <<cUser, cRoom>>
              ELSE /\ cUser' = [cUser EXCEPT ![p] = lUser[p]]
                   /\ cRoom' = [cRoom EXCEPT ![p] = r]
    /\ hubMu' = None
    /\ lFound' = [lFound EXCEPT ![p] = 0]
    /\ pc' = [pc EXCEPT ![p] = IF p = UDP THEN "bcast" ELSE "join"]
    /\ UNCHANGED <<clock, status, wpc, sendCh, chClosed, connClosed, lName, lUser,
                   lMsg, lTodo, lSnap, lEnq, lDrop, udpVars, histVars, codec, parsed>>

\* ------------------------------------------------------------- Room.join
\* r.mu.Lock()
JoinLock(c) ==
    /\ pc[c] = "join"
    /\ RWCanLock(roomMu[lRoom[c]]) \/ c \notin roomMu[lRoom[c]].q
    /\ roomMu' = [roomMu EXCEPT ![lRoom[c]] = RWLock(@, c)]
    /\ pc' = [pc EXCEPT ![c] = IF RWCanLock(roomMu[lRoom[c]]) THEN "joinIn" ELSE "join"]
    /\ UNCHANGED <<clock, status, wpc, hubMu, hubRooms, rooms, clientVars, localVars,
                   udpVars, histVars, codec, parsed>>

\* a join that enters the client in every room of the registry
JoinEveryRoom(c) ==
    /\ pc[c] = "joinIn"
    /\ rooms' = [r \in 1..Len(rooms) |-> [rooms[r] EXCEPT !.clients = @ \cup {c}]]
    /\ roomMu' = [roomMu EXCEPT ![lRoom[c]] = RWUnlock(@)]
    /\ wpc' = [wpc EXCEPT ![c] = "range"]
    /\ pc' = [pc EXCEPT ![c] = "read"]
    /\ UNCHANGED <<clock, status, hubMu, hubRooms, clientVars, localVars, udpVars,
                   histVars, codec, parsed>>

\* r.clients[c] = true; r.mu.Unlock(); then the handler starts the writer
JoinUnlock(c) ==
    /\ pc[c] = "joinIn"
    /\ rooms' = [rooms EXCEPT ![lRoom[c]].clients = @ \cup {c}]
    /\ roomMu' = [roomMu EXCEPT ![lRoom[c]] = RWUnlock(@)]
    /\ wpc' = [wpc EXCEPT ![c] = "range"]
    /\ pc' = [pc EXCEPT ![c] = "read"]
    /\ UNCHANGED <<clock, status, hubMu, hubRooms, clientVars, localVars, udpVars,
                   histVars, codec, parsed>>

\* ------------------------------------------------------------- reader loop
\* a message in a channel: the envelope, tagged with the goroutine that
\* broadcast it and its number among that goroutine's broadcasts (history)
Msg(env, p, k) == [env |-> env, from |-> p, seq |-> k]

\* ReadMessage returns a frame: wrap it and go on to room.broadcast
ReadFrame(c, frame) ==
    /\ pc[c] = "read"
    /\ connClosed[c] = 0
    /\ LET m == Msg(MarshalEnvelope(lName[c], cUser[c], clock, frame), c,
                     Len(frameSeq[c]) + 1)
       IN  /\ lMsg' = [lMsg EXCEPT ![c] = m]
           /\ frameSeq' = [frameSeq EXCEPT ![c] = Append(@, m)]
    /\ nFrames' = nFrames + 1
    /\ pc' = [pc EXCEPT ![c] = "bcast"]
    /\ UNCHANGED <<status, wpc, hubVars, clientVars, lName, lUser, lFound, lRoom,
                   lTodo, lSnap, lEnq, lDrop, udpVars, written, wErr, dgLog, udpOut,
                   injLog, nFaults, nRejects, reqPath, codec, parsed, sendOnClosed, clock>>

\* ReadMessage returns an error (peer gone, read deadline, connection closed
\* by the writer): break
ReadError(c) ==
    /\ pc[c] = "read"
    /\ connClosed[c] > 0 \/ nFaults < MaxFaults
    /\ nFaults' = IF connClosed[c] > 0 THEN nFaults ELSE nFaults + 1
    /\ pc' = [pc EXCEPT ![c] = "leave"]
    /\ UNCHANGED <<clock, status, wpc, hubVars, clientVars, localVars, udpVars,
                   nFrames, frameSeq, written, wErr, dgLog, udpOut, injLog, nRejects, reqPath, codec, parsed,
                   sendOnClosed>>

\* a UDP loop that passes a client as the sender of its broadcasts
SenderFirst(p) == IF p = UDP THEN 1 ELSE p

\* ------------------------------------------------------------- Room.broadcast
\* the sender argument of the broadcast a goroutine makes: the handler
\* passes its client, the UDP loop nil
Sender(p) == IF p = UDP THEN None ELSE p

IsRecipientEcho(c, sender) == TRUE

\* if c != sender
IsRecipient(c, sender) == c # sender

\* a send that puts the message at the head of the channel
OfferFront(q, m) == IF Len(q) < QueueCap THEN <<m>> \o q ELSE q

\* select { case c.sendCh <- msg: default: } on an open channel: the
\* channel after it
Offer(q, m) == IF Len(q) < QueueCap THEN Append(q, m) ELSE q

\* a send without a default case: ready only when the channel has space
SelectBlocking(q) == Len(q) < QueueCap

\* the select has a default case: it is ready whatever the channel holds
SelectReady(q) == TRUE

\* a range loop that visits the members of every Room of the Hub
BroadcastRLockAllRooms(p) ==
    /\ pc[p] = "bcast"
    /\ RWCanRLock(roomMu[lRoom[p]])
    /\ roomMu' = [roomMu EXCEPT ![lRoom[p]] = RWRLock(@, p)]
    /\ lTodo' = [lTodo EXCEPT ![p] =
                    {c \in UNION {rooms[r].clients : r \in 1..Len(rooms)} :
                        IsRecipient(c, Sender(p))}]
    /\ lSnap' = [lSnap EXCEPT ![p] = rooms[lRoom[p]].clients]
    /\ lEnq' = [lEnq EXCEPT ![p] = {}]
    /\ lDrop' = [lDrop EXCEPT ![p] = {}]
    /\ pc' = [pc EXCEPT ![p] = "bcIter"]
    /\ UNCHANGED <<clock, status, wpc, hubMu, hubRooms, rooms, clientVars, lName,
                   lUser, lFound, lRoom, lMsg, udpVars, histVars, codec, parsed>>

\* r.mu.RLock(); the range loop starts over the members (an iteration for
\* which c != sender fails does nothing: the loop has the others to visit)
BroadcastRLock(p) ==
    /\ pc[p] = "bcast"
    /\ RWCanRLock(roomMu[lRoom[p]])
    /\ roomMu' = [roomMu EXCEPT ![lRoom[p]] = RWRLock(@, p)]
    /\ lTodo' = [lTodo EXCEPT ![p] =
                    {c \in rooms[lRoom[p]].clients : IsRecipient(c, Sender(p))}]
    /\ lSnap' = [lSnap EXCEPT ![p] = rooms[lRoom[p]].clients]
    /\ lEnq' = [lEnq EXCEPT ![p] = {}]
    /\ lDrop' = [lDrop EXCEPT ![p] = {}]
    /\ pc' = [pc EXCEPT ![p] = "bcIter"]
    /\ UNCHANGED <<clock, status, wpc, hubMu, hubRooms, rooms, clientVars, lName,
                   lUser, lFound, lRoom, lMsg, udpVars, histVars, codec, parsed>>

\* one iteration of the range loop, for member c (map order is arbitrary)
BroadcastOffer(p, c) ==
    /\ pc[p] = "bcIter"
    /\ c \in lTodo[p]
    /\ SelectReady(sendCh[c])
    /\ lTodo' = [lTodo EXCEPT ![p] = @ \ {c}]
    /\ IF chClosed[c] > 0
       THEN /\ sendOnClosed' = TRUE
            /\ UNCHANGED <<sendCh, lEnq, lDrop>>
       ELSE /\ sendCh' = [sendCh EXCEPT ![c] = Offer(@, lMsg[p])]
            /\ lEnq' = [lEnq EXCEPT ![p] =
                          IF sendCh'[c] = Append(sendCh[c], lMsg[p])
                          THEN @ \cup {c} ELSE @]
            /\ lDrop' = [lDrop EXCEPT ![p] =
                          IF Len(sendCh[c]) >= QueueCap THEN @ \cup {c} ELSE @]
            /\ UNCHANGED sendOnClosed
    /\ UNCHANGED <<clock, status, pc, wpc, hubVars, cUser, cRoom, chClosed,
                   connClosed, lName, lUser, lFound, lRoom, lMsg, lSnap, udpVars,
                   nFrames, frameSeq, written, wErr, dgLog, udpOut, injLog, nFaults,
                   nRejects, reqPath, codec, parsed>>

\* r.mu.RUnlock(); the handler reads on, the UDP loop receives on
BroadcastRUnlock(p) ==
    /\ pc[p] = "bcIter"
    /\ lTodo[p] = {}
    /\ roomMu' = [roomMu EXCEPT ![lRoom[p]] = RWRUnlock(@, p)]
    /\ pc' = [pc EXCEPT ![p] = IF p = UDP THEN "uread" ELSE "read"]
    /\ injLog' = IF p = UDP
                 THEN Append(injLog, [room |-> lRoom[p], env |-> lMsg[p].env])
                 ELSE injLog
    /\ lSnap' = [lSnap EXCEPT ![p] = {}]
    /\ lEnq' = [lEnq EXCEPT ![p] = {}]
    /\ lDrop' = [lDrop EXCEPT ![p] = {}]
    /\ lMsg' = [lMsg EXCEPT ![p] = <<>>]
    /\ lRoom' = [lRoom EXCEPT ![p] = IF p = UDP THEN 0 ELSE @]
    /\ UNCHANGED <<clock, status, wpc, hubMu, hubRooms, rooms, clientVars, lName,
                   lUser, lFound, lTodo, udpVars, nFrames, frameSeq, written,
                   wErr, dgLog, udpOut, nFaults, nRejects, reqPath, codec, parsed, sendOnClosed>>

\* ------------------------------------------------------------- cleanup
\* room.leave(client): r.mu.Lock()
LeaveLock(c) ==
    /\ pc[c] = "leave"
    /\ RWCanLock(roomMu[lRoom[c]]) \/ c \notin roomMu[lRoom[c]].q
    /\ roomMu' = [roomMu EXCEPT ![lRoom[c]] = RWLock(@, c)]
    /\ pc' = [pc EXCEPT ![c] = IF RWCanLock(roomMu[lRoom[c]]) THEN "leaveIn" ELSE "leave"]
    /\ UNCHANGED <<clock, status, wpc, hubMu, hubRooms, rooms, clientVars, localVars,
                   udpVars, histVars, codec, parsed>>

\* a delete that empties the map
MapClear(clients, c) == {}

\* a delete that removes nothing
MapDeleteNothing(clients, c) == clients

\* delete(r.clients, c)
MapDelete(clients, c) == clients \ {c}

\* a leave that also drops the room from the registry once it is empty
LeaveAndReap(c) ==
    /\ pc[c] = "leaveIn"
    /\ rooms' = [rooms EXCEPT ![lRoom[c]].clients = MapDelete(@, c)]
    /\ roomMu' = [roomMu EXCEPT ![lRoom[c]] = RWUnlock(@)]
    /\ hubRooms' = IF rooms'[lRoom[c]].clients = {}
                   THEN [n \in {m \in DOMAIN hubRooms : hubRooms[m] # lRoom[c]} |->
                            hubRooms[n]]
                   ELSE hubRooms
    /\ pc' = [pc EXCEPT ![c] = "close"]
    /\ UNCHANGED <<clock, status, wpc, hubMu, clientVars, localVars, udpVars,
                   histVars, codec, parsed>>

\* delete(r.clients, c); r.mu.Unlock()
LeaveUnlock(c) ==
    /\ pc[c] = "leaveIn"
    /\ rooms' = [rooms EXCEPT ![lRoom[c]].clients = MapDelete(@, c)]
    /\ roomMu' = [roomMu EXCEPT ![lRoom[c]] = RWUnlock(@)]
    /\ pc' = [pc EXCEPT ![c] = "close"]
    /\ UNCHANGED <<clock, status, wpc, hubMu, hubRooms, clientVars, localVars, udpVars,
                   histVars, codec, parsed>>

\* close(client.sendCh); the handler returns
CloseSendCh(c) ==
    /\ pc[c] = "close"
    /\ chClosed' = [chClosed EXCEPT ![c] = @ + 1]
    /\ pc' = [pc EXCEPT ![c] = "done"]
    /\ UNCHANGED <<clock, status, wpc, hubVars, cUser, cRoom, sendCh, connClosed,
                   localVars, udpVars, histVars, codec, parsed>>

\* ------------------------------------------------------------- writer
\* for msg := range client.sendCh { WriteMessage(msg) succeeds }
WriterSend(c) ==
    /\ wpc[c] = "range"
    /\ sendCh[c] # <<>>
    /\ sendCh' = [sendCh EXCEPT ![c] = Tail(@)]
    /\ written' = [written EXCEPT ![c] = Append(@, Head(sendCh[c]))]
    /\ UNCHANGED <<clock, status, pc, wpc, hubVars, cUser, cRoom, chClosed,
                   connClosed, localVars, udpVars, nFrames, frameSeq, wErr, dgLog,
                   udpOut, injLog, nFaults, nRejects, reqPath, codec, parsed, sendOnClosed>>

\* WriteMessage(msg) fails (peer gone, write deadline): return
WriterFail(c) ==
    /\ wpc[c] = "range"
    /\ sendCh[c] # <<>>
    /\ nFaults < MaxFaults
    /\ nFaults' = nFaults + 1
    /\ sendCh' = [sendCh EXCEPT ![c] = Tail(@)]
    /\ wErr' = [wErr EXCEPT ![c] = TRUE]
    /\ wpc' = [wpc EXCEPT ![c] = "closeConn"]
    /\ UNCHANGED <<clock, status, pc, hubVars, cUser, cRoom, chClosed, connClosed,
                   localVars, udpVars, nFrames, frameSeq, written, dgLog, udpOut,
                   injLog, nRejects, reqPath, codec, parsed, sendOnClosed>>

\* a range loop that ends as soon as the channel is closed
WriterExitEarly(c) ==
    /\ wpc[c] = "range"
    /\ chClosed[c] > 0
    /\ wpc' = [wpc EXCEPT ![c] = "closeConn"]
    /\ UNCHANGED <<clock, status, pc, hubVars, clientVars, localVars, udpVars,
                   histVars, codec, parsed>>

\* the range loop ends: the channel is closed and drained
WriterExit(c) ==
    /\ wpc[c] = "range"
    /\ sendCh[c] = <<>>
    /\ chClosed[c] > 0
    /\ wpc' = [wpc EXCEPT ![c] = "closeConn"]
    /\ UNCHANGED <<clock, status, pc, hubVars, clientVars, localVars, udpVars,
                   histVars, codec, parsed>>

\* a writer that returns without closing the connection
WriterReturn(c) ==
    /\ wpc[c] = "closeConn"
    /\ wpc' = [wpc EXCEPT ![c] = "done"]
    /\ UNCHANGED <<clock, status, pc, hubVars, clientVars, localVars, udpVars,
                   histVars, codec, parsed>>

\* the deferred client.conn.Close()
WriterCloseConn(c) ==
    /\ wpc[c] = "closeConn"
    /\ connClosed' = [connClosed EXCEPT ![c] = @ + 1]
    /\ wpc' = [wpc EXCEPT ![c] = "done"]
    /\ UNCHANGED <<clock, status, pc, hubVars, cUser, cRoom, sendCh, chClosed,
                   localVars, udpVars, histVars, codec, parsed>>

\* ------------------------------------------------------------- UDP relay
\* a registry that keeps the entry a username already has
UpsertKeepFirst(reg, room, user, addr, t) ==
    LET old == IF room \in DOMAIN reg THEN reg[room] ELSE <<>>
        new == [u \in DOMAIN old \cup {user} |->
                   IF u \in DOMAIN old THEN old[u] ELSE [addr |-> addr, last |-> t]]
    IN  [r \in DOMAIN reg \cup {room} |-> IF r = room THEN new ELSE reg[r]]

\* the peer registry after rooms[roomName][username] = &peer{remote, now}
Upsert(reg, room, user, addr, t) ==
    LET old == IF room \in DOMAIN reg THEN reg[room] ELSE <<>>
        new == [u \in DOMAIN old \cup {user} |->
                   IF u = user THEN [addr |-> addr, last |-> t] ELSE old[u]]
    IN  [r \in DOMAIN reg \cup {room} |-> IF r = room THEN new ELSE reg[r]]

\* a forward loop without the continue
IsForwardTargetAny(uname, username) == TRUE

\* for uname := range rooms[roomName] { if uname == username { continue } ... }
IsForwardTarget(uname, username) == uname # username

\* ReadFromUDP returns a datagram: parse it, fill in the defaults, mu.Lock()
\* (only this goroutine ever takes mu), upsert the sender's entry; the
\* forward loop starts (the iteration that meets uname == username
\* continues at once)
UdpReceive(remote, data) ==
    /\ pc[UDP] = "uread"
    /\ udpClosed = 0
    /\ MutexFree(peerMu)
    /\ peerMu' = UDP
    /\ LET f == parseUDPFrame(data)
           roomName == IF f.room = <<>> THEN StrGlobal ELSE f.room
       IN  \E t \in (IF f.user = <<>> THEN NowSet ELSE {clock}) :
           LET username == IF f.user = <<>> THEN StrUdp \o Itoa(t) ELSE f.user
           IN  /\ clock' = t
               /\ lName' = [lName EXCEPT ![UDP] = roomName]
               /\ lUser' = [lUser EXCEPT ![UDP] = username]
               /\ uPayload' = f.payload
               /\ peers' = Upsert(peers, roomName, username, remote, t)
               /\ uTodo' = {u \in DOMAIN peers'[roomName] : IsForwardTarget(u, username)}
    /\ uRemote' = remote
    /\ uSent' = <<>>
    /\ dgLog' = Append(dgLog, [remote |-> remote, data |-> data])
    /\ pc' = [pc EXCEPT ![UDP] = "ufwd"]
    /\ UNCHANGED <<status, wpc, hubVars, clientVars, lFound, lRoom, lMsg, lTodo, lSnap,
                   lEnq, lDrop, udpClosed, nFrames, frameSeq, written, wErr, udpOut,
                   injLog, nFaults, nRejects, reqPath, codec, parsed, sendOnClosed>>

\* ReadFromUDP fails: the loop returns and the deferred conn.Close() runs
UdpReadError ==
    /\ pc[UDP] = "uread"
    /\ nFaults < MaxFaults
    /\ nFaults' = nFaults + 1
    /\ udpClosed' = udpClosed + 1
    /\ pc' = [pc EXCEPT ![UDP] = "udone"]
    /\ UNCHANGED <<clock, status, wpc, hubVars, clientVars, localVars, peerMu, peers,
                   uRemote, uPayload, uTodo, uSent, nFrames, frameSeq, written, wErr,
                   dgLog, udpOut, injLog, nRejects, reqPath, codec, parsed, sendOnClosed>>

\* one iteration of the forward loop, for the entry of uname
UdpForward(uname) ==
    /\ pc[UDP] = "ufwd"
    /\ uname \in uTodo
    /\ uTodo' = uTodo \ {uname}
    /\ LET out == [user |-> uname, to |-> peers[lName[UDP]][uname].addr,
                    payload |-> uPayload, dg |-> Len(dgLog)]
       IN  /\ uSent' = Append(uSent, out)
           /\ udpOut' = Append(udpOut, out)
    /\ UNCHANGED <<clock, status, pc, wpc, hubVars, clientVars, localVars, peerMu,
                   peers, uRemote, uPayload, udpClosed, nFrames, frameSeq, written,
                   wErr, dgLog, injLog, nFaults, nRejects, reqPath, codec, parsed, sendOnClosed>>

\* a loop that goes on to hub.getRoom with mu still locked
UdpKeepLock ==
    /\ pc[UDP] = "ufwd"
    /\ uTodo = {}
    /\ lMsg' = [lMsg EXCEPT ![UDP] =
                  Msg(MarshalEnvelope(lName[UDP], lUser[UDP], clock, uPayload),
                      UDP, Len(dgLog))]
    /\ uRemote' = ""
    /\ uPayload' = <<>>
    /\ uSent' = <<>>
    /\ pc' = [pc EXCEPT ![UDP] = "getRoom"]
    /\ UNCHANGED <<clock, status, wpc, hubVars, clientVars, lName, lUser, lFound,
                   lRoom, lTodo, lSnap, lEnq, lDrop, peerMu, peers, uTodo, udpClosed,
                   histVars, codec, parsed>>

\* mu.Unlock(); env := MarshalEnvelope(...); then hub.getRoom(roomName)
UdpUnlock ==
    /\ pc[UDP] = "ufwd"
    /\ uTodo = {}
    /\ peerMu' = None
    /\ lMsg' = [lMsg EXCEPT ![UDP] =
                  Msg(MarshalEnvelope(lName[UDP], lUser[UDP], clock, uPayload),
                      UDP, Len(dgLog))]
    /\ uRemote' = ""
    /\ uPayload' = <<>>
    /\ uSent' = <<>>
    /\ pc' = [pc EXCEPT ![UDP] = "getRoom"]
    /\ UNCHANGED <<clock, status, wpc, hubVars, clientVars, lName, lUser, lFound,
                   lRoom, lTodo, lSnap, lEnq, lDrop, peers, uTodo, udpClosed, histVars, codec, parsed>>

\* ------------------------------------------------------------- the relay
\* what the stream side does for the connections in cs, which send maxf
\* frames at most
StreamNext(cs, maxf) ==
    \/ \E c \in cs, path \in Paths : RequestNotFound(c, path)
    \/ \E c \in cs, m \in Methods, path \in Paths, up \in BOOLEAN :
          Request(c, m, path, up)
    \/ \E c \in cs : GetRoomLock(c)
    \/ \E c \in cs : GetRoomReturn(c)
    \/ \E c \in cs : JoinLock(c)
    \/ \E c \in cs : JoinUnlock(c)
    \/ \E c \in cs, f \in Frames : nFrames < maxf /\ ReadFrame(c, f)
    \/ \E c \in cs : ReadError(c)
    \/ \E c \in cs : BroadcastRLock(c)
    \/ \E p \in cs, c \in cs : BroadcastOffer(p, c)
    \/ \E c \in cs : BroadcastRUnlock(c)
    \/ \E c \in cs : LeaveLock(c)
    \/ \E c \in cs : LeaveUnlock(c)
    \/ \E c \in cs : CloseSendCh(c)
    \/ \E c \in cs : WriterSend(c)
    \/ \E c \in cs : WriterFail(c)
    \/ \E c \in cs : WriterExit(c)
    \/ \E c \in cs : WriterCloseConn(c)

\* what the UDP loop does with the datagrams of ins, the clients being cs
UdpNext(ins, cs) ==
    \/ \E in \in ins : Len(dgLog) < MaxDatagrams /\ UdpReceive(in[1], in[2])
    \/ UdpReadError
    \/ \E u \in UNION {DOMAIN peers[r] : r \in DOMAIN peers} : UdpForward(u)
    \/ UdpUnlock
    \/ GetRoomLock(UDP)
    \/ GetRoomReturn(UDP)
    \/ BroadcastRLock(UDP)
    \/ \E c \in cs : BroadcastOffer(UDP, c)
    \/ BroadcastRUnlock(UDP)

\* the relay: stream connections beside the UDP loop, the datagrams landing
\* in the room of the stream clients
Next ==
    \/ StreamNext(1..NConnRelay, MaxFramesRelay)
    \/ UdpNext(UdpInputsGlobal, 1..NConnRelay)

Spec == Init /\ [][Next]_vars

\* the relay, the UDP loop taking datagrams with and without headers
NextBridge ==
    \/ StreamNext(1..NConnBridge, MaxFramesRelay)
    \/ UdpNext(UdpInputs, 1..NConnBridge)

SpecBridge == Init /\ [][NextBridge]_vars

\* the relay, the UDP loop taking datagrams with malformed headers
NextMalformed ==
    \/ StreamNext(1..NConnBridge, MaxFramesRelay)
    \/ UdpNext(UdpInputsMalformed, 1..NConnBridge)

SpecMalformed == Init /\ [][NextMalformed]_vars

\* datagrams of two rooms, one username arriving from two addresses
UdpInputsPeers ==
    {<<"addr1", DgBob>>, <<"addr3", DgBob>>, <<"addr2", DgCarol>>,
     <<"addr2", DgRaw>>, <<"addr4", DgRaw>>}

\* what the UDP loop does with up to maxd datagrams of ins when no stream
\* client is in the room it broadcasts to
UdpLoopNext(ins, maxd) ==
    \/ \E in \in ins : Len(dgLog) < maxd /\ UdpReceive(in[1], in[2])
    \/ UdpReadError
    \/ \E u \in UNION {DOMAIN peers[r] : r \in DOMAIN peers} : UdpForward(u)
    \/ UdpUnlock
    \/ GetRoomLock(UDP)
    \/ GetRoomReturn(UDP)
    \/ BroadcastRLock(UDP)
    \/ BroadcastRUnlock(UDP)

\* the relay, the UDP loop taking up to MaxDatagramsPeers datagrams of
\* UdpInputsPeers
NextPeers ==
    \/ StreamNext(1..NConnBridge, MaxFramesRelay)
    \/ UdpLoopNext(UdpInputsPeers, MaxDatagramsPeers)
    \/ \E c \in 1..NConnBridge : BroadcastOffer(UDP, c)

SpecPeers == Init /\ [][NextPeers]_vars

\* the UDP loop alone, before any stream client has arrived
NextTable == UdpLoopNext(UdpInputsPeers, MaxDatagramsPeers)

SpecTable == Init /\ [][NextTable]_vars

\* the relay when StartUDPRelay returned an error (main.go:352-353): the
\* server goes on without the UDP loop
InitStream == InitAt("off")

NextStream == StreamNext(Conns, MaxFrames)

SpecStream == InitStream /\ [][NextStream]_vars

\* ------------------------------------------------------------- envelopes
\* byte values a payload is made of: NUL, an ASCII letter, and two bytes
\* that are not valid UTF-8 on their own
CodecBytes == {0, 65, 128, 255}

\* the byte strings of length n over CodecBytes
RECURSIVE BytesOfLen(_)
BytesOfLen(n) ==
    IF n = 0 THEN {<<>>}
    ELSE {Append(b, x) : b \in BytesOfLen(n - 1), x \in CodecBytes}

CodecPayloads == UNION {BytesOfLen(n) : n \in 0..MaxPayloadLen}

\* room names and usernames, with characters json.Marshal escapes
CodecRooms == {<<>>, StrGlobal, <<"a", "\"", "<">>}
CodecUsers == {<<"b","o","b">>, <<"b", "\\", "\n", ">", "&">>}
CodecTimes == {0, MaxClock, 1234567890}

\* an envelope is about to be encoded
InitCodec ==
    /\ RelayInit("off")
    /\ parsed = ParsedOff
    /\ \E r \in CodecRooms, u \in CodecUsers, t \in CodecTimes, b \in CodecPayloads :
          codec = [CodecOff EXCEPT !.phase = "in", !.room = r, !.user = u,
                                   !.ts = t, !.payload = b]

\* MarshalEnvelope(room, user, payload): the bytes put on the channel
Encode ==
    /\ codec.phase = "in"
    /\ codec' = [codec EXCEPT !.phase = "wire",
                              !.wire = MarshalJSON(codec.room, codec.user,
                                                   codec.ts, codec.payload)]
    /\ UNCHANGED <<relayVars, parsed>>

\* the receiving client decodes the message it read
Decode ==
    /\ codec.phase = "wire"
    /\ codec' = [codec EXCEPT !.phase = "out", !.out = UnmarshalJSON(codec.wire)]
    /\ UNCHANGED <<relayVars, parsed>>

NextCodec == Encode \/ Decode

SpecCodec == InitCodec /\ [][NextCodec]_vars

\* ------------------------------------------------------------- datagrams
\* the parts a header line is put together from: the text of the part, the
\* key it stands for ("ROOM", "USER", "other" for a key the relay does not
\* know, "none" for a part that is no KEY:value pair) and the value it
\* carries
HeaderParts ==
    { [text |-> <<"R","O","O","M",":","a">>, key |-> "ROOM", val |-> <<"a">>],
      [text |-> <<"r","o","o","m",":","b">>, key |-> "ROOM", val |-> <<"b">>],
      [text |-> <<" ","R","o","o","m"," ",":"," ","c"," ">>, key |-> "ROOM", val |-> <<"c">>],
      [text |-> <<"R","O","O","M",":">>, key |-> "ROOM", val |-> <<>>],
      [text |-> <<"R","O","O","M",":","a",":","b">>, key |-> "ROOM", val |-> <<"a",":","b">>],
      [text |-> <<"U","S","E","R",":","u">>, key |-> "USER", val |-> <<"u">>],
      [text |-> <<"u","S","e","R",":","v">>, key |-> "USER", val |-> <<"v">>],
      [text |-> <<"U","S","E","R"," ",":","w","\r">>, key |-> "USER", val |-> <<"w">>],
      [text |-> <<"F","O","O",":","x">>, key |-> "other", val |-> <<"x">>],
      [text |-> <<"R","O","O","M","S",":","x">>, key |-> "other", val |-> <<"x">>],
      [text |-> <<"j","u","n","k">>, key |-> "none", val |-> <<>>],
      [text |-> <<>>, key |-> "none", val |-> <<>>] }

\* the header lines: up to MaxParts parts
Headers == UNION {[1..n -> HeaderParts] : n \in 0..MaxParts}

\* what follows the first line break, further line breaks and header-like
\* text included
Payloads ==
    { <<>>, <<"h","i">>, <<"a","\n","b">>, <<"\n","R","O","O","M",":","q">>,
      <<"x",";","U","S","E","R",":","z">> }

\* datagrams without any line break, header-like text included
Unbroken ==
    { <<>>, <<"r","a","w">>, <<"R","O","O","M",":","a",";","U","S","E","R",":","u">>,
      <<"a",";","b",":","c","\r">> }

\* strings.Join(texts, ";")
RECURSIVE Join(_)
Join(ps) ==
    IF ps = <<>> THEN <<>>
    ELSE IF Len(ps) = 1 THEN ps[1].text
    ELSE ps[1].text \o <<";">> \o Join(Tail(ps))

\* the bytes ReadFromUDP hands to parseUDPFrame
InitParse ==
    /\ RelayInit("off")
    /\ codec = CodecOff
    /\ \/ \E h \in Headers, b \in Payloads :
             parsed = [ParsedOff EXCEPT !.phase = "in", !.parts = h, !.brk = TRUE,
                                        !.payload = b,
                                        !.data = Join(h) \o <<"\n">> \o b]
       \/ \E b \in Unbroken :
             parsed = [ParsedOff EXCEPT !.phase = "in", !.payload = b, !.data = b]

\* room, user, payload := parseUDPFrame(buf[:n])
Parse ==
    /\ parsed.phase = "in"
    /\ parsed' = [parsed EXCEPT !.phase = "out", !.out = parseUDPFrame(parsed.data)]
    /\ UNCHANGED <<relayVars, codec>>

NextParse == Parse

SpecParse == InitParse /\ [][NextParse]_vars

\* the steps the handler goroutine of c takes on its own: everything but
\* waiting in ReadMessage for the peer (a read on a connection the writer
\* has closed returns its error at once)
HandlerStep(c) ==
    \/ GetRoomLock(c)
    \/ GetRoomReturn(c)
    \/ JoinLock(c)
    \/ JoinUnlock(c)
    \/ connClosed[c] > 0 /\ ReadError(c)
    \/ BroadcastRLock(c)
    \/ \E d \in Conns : BroadcastOffer(c, d)
    \/ BroadcastRUnlock(c)
    \/ LeaveLock(c)
    \/ LeaveUnlock(c)
    \/ CloseSendCh(c)

\* the steps of the writer goroutine of c: WriteMessage has a deadline, it
\* returns one way or the other
WriterStep(c) == WriterSend(c) \/ WriterExit(c) \/ WriterCloseConn(c)

\* the steps the UDP loop takes on its own, a datagram in hand
UdpStep ==
    \/ \E u \in UNION {DOMAIN peers[r] : r \in DOMAIN peers} : UdpForward(u)
    \/ UdpUnlock
    \/ GetRoomLock(UDP)
    \/ GetRoomReturn(UDP)
    \/ BroadcastRLock(UDP)
    \/ \E c \in Conns : BroadcastOffer(UDP, c)
    \/ BroadcastRUnlock(UDP)

\* the Go scheduler runs every goroutine that can run
Fairness ==
    /\ \A c \in Conns : WF_vars(HandlerStep(c)) /\ WF_vars(WriterStep(c))
    /\ WF_vars(UdpStep)

SpecLive == SpecBridge /\ Fairness

\* ------------------------------------------------------------- claims
\* everything client c was handed so far and has not lost to a failed write
Delivered(c) == written[c] \o sendCh[c]

\* the broadcast of goroutine p has visited every member
BroadcastDone(p) == pc[p] = "bcIter" /\ lTodo[p] = {}

\* A's first frame is the only frame so far and A's broadcast of it has
\* visited every member of a room of three or more
OneFrameScenario(a) ==
    /\ nFrames = 1
    /\ Len(frameSeq[a]) = 1
    /\ dgLog = <<>>
    /\ BroadcastDone(a)
    /\ Cardinality(lSnap[a]) >= 3

\* C1: a broadcast for a frame of member A visits every other client that
\* is a member when the loop starts, puts the envelope on the channel of
\* each of them unless that channel is full, and never puts it on A's own
\* channel; with A, B and C in the room and one frame sent by A, B and C
\* each hold exactly one envelope, with A's username, and A holds none.
C1_BroadcastReachesOthers ==
    \A a \in Conns :
        /\ \A i \in 1..Len(Delivered(a)) : Delivered(a)[i].from # a
        /\ pc[a] = "bcIter" => a \notin lTodo[a] \cup lEnq[a] \cup lDrop[a]
        /\ BroadcastDone(a) =>
              /\ lEnq[a] \cup lDrop[a] = lSnap[a] \ {a}
              /\ lEnq[a] \cap lDrop[a] = {}
              /\ \A c \in lEnq[a] :
                    \/ \E i \in 1..Len(Delivered(c)) : Delivered(c)[i] = lMsg[a]
                    \/ wErr[c]
        /\ OneFrameScenario(a) =>
              /\ Delivered(a) = <<>>
              /\ lDrop[a] = {}
              /\ \A c \in lSnap[a] \ {a} :
                    \/ /\ Delivered(c) = <<lMsg[a]>>
                       /\ lMsg[a].env.username = cUser[a]
                       /\ lMsg[a].env.payload = FramePing
                    \/ wErr[c] /\ Delivered(c) = <<>>

C1_Witness ==
    \E a \in Conns :
        /\ OneFrameScenario(a)
        /\ Cardinality(lEnq[a]) = 2
        /\ \A c \in lEnq[a] : Delivered(c) = <<lMsg[a]>>

\* the members the broadcast of goroutine p is for
Recipients(p) == {c \in lSnap[p] : c # Sender(p)}

\* goroutine p makes the iteration of its broadcast loop for member c
OfferStep(p, c) ==
    /\ pc[p] = "bcIter"
    /\ c \in lTodo[p]
    /\ lTodo'[p] = lTodo[p] \ {c}

\* C2: a broadcast never waits on a queue: its iteration for a member can
\* always be taken, whatever that member's queue holds, and between RLock
\* and RUnlock the goroutine always has a step to take.  The iteration for
\* a member whose queue is full leaves that queue as it is and touches no
\* other queue; the iteration for a member whose queue has space appends
\* the message to it, however many other queues were full; after the last
\* iteration every recipient was either enqueued or dropped for being full.
\* The broadcasting goroutine goes on the same way after a drop: to its
\* next read, its own queue untouched.
C2_FullQueueDropsOnly ==
    /\ [](\A p \in Procs :
            /\ \A c \in lTodo[p] : pc[p] = "bcIter" => ENABLED BroadcastOffer(p, c)
            /\ pc[p] = "bcIter" /\ lTodo[p] = {} => ENABLED BroadcastRUnlock(p)
            /\ BroadcastDone(p) =>
                  /\ lEnq[p] \cup lDrop[p] = Recipients(p)
                  /\ lEnq[p] \cap lDrop[p] = {})
    /\ [][\A p \in Procs :
            /\ \A c \in Conns : OfferStep(p, c) =>
                  /\ sendCh'[c] = IF Len(sendCh[c]) >= QueueCap
                                  THEN sendCh[c]
                                  ELSE Append(sendCh[c], lMsg[p])
                  /\ \A d \in Conns \ {c} : sendCh'[d] = sendCh[d]
                  /\ c \in lDrop'[p] <=> Len(sendCh[c]) >= QueueCap
                  /\ c \in lEnq'[p] <=> Len(sendCh[c]) < QueueCap
                  /\ pc' = pc
            /\ BroadcastDone(p) /\ pc'[p] # pc[p] =>
                  pc'[p] = IF p = UDP THEN "uread" ELSE "read"]_vars

C2_Witness ==
    \E p \in Procs :
        /\ BroadcastDone(p)
        /\ lDrop[p] # {}
        /\ lEnq[p] # {}
        /\ \A c \in lDrop[p] : Len(sendCh[c]) = QueueCap /\ lMsg[p] \notin
               {sendCh[c][i] : i \in 1..Len(sendCh[c])}
        /\ \A c \in lEnq[p] : sendCh[c] # <<>> /\ sendCh[c][Len(sendCh[c])] = lMsg[p]

\* client c is a member of some room
IsMember(c) == \E r \in 1..Len(rooms) : c \in rooms[r].clients

\* the handler of client c is past room.leave(client)
HasLeft(c) == status[c] = 101 /\ pc[c] \in {"close", "done"}

\* C3: whatever the interleaving of frame broadcasts, datagram broadcasts
\* and cleanups, close(sendCh) runs at most once for a client and exactly
\* once by the time its handler has returned, a client whose channel is
\* closed is a member of no room, no broadcast loop has a closed channel
\* among the members it has yet to visit, and no send on a closed channel
\* ever happened.
C3_CloseOnceAfterLeave ==
    /\ ~sendOnClosed
    /\ \A c \in Conns :
          /\ chClosed[c] <= 1
          /\ chClosed[c] = 1 => ~IsMember(c) /\ pc[c] = "done"
          /\ pc[c] = "done" /\ status[c] = 101 => chClosed[c] = 1
          /\ pc[c] = "close" => ~IsMember(c) /\ chClosed[c] = 0
    /\ \A p \in Procs : \A c \in lTodo[p] : pc[p] = "bcIter" => chClosed[c] = 0

C3_Witness ==
    \E c \in Conns :
        /\ chClosed[c] = 1
        /\ Delivered(c) # <<>>
        /\ pc[UDP] = "bcIter"
        /\ lRoom[UDP] = cRoom[c]
        /\ lEnq[UDP] # {}
        /\ \E d \in Conns \ {c} : pc[d] = "bcIter" /\ lRoom[d] = cRoom[c]

\* C4: the step that ends room.leave(client) takes exactly the leaving
\* client out of its room, whose membership count is one less after it;
\* from then on the client is in the members of no broadcast loop that
\* starts, and nothing is ever added to its channel.  This holds whether
\* the reader loop ended on a read error or on the connection closed by the
\* writer after a write failure.
C4_LeaveRemovesMember ==
    [][\A c \in Conns :
        /\ pc[c] = "leaveIn" /\ pc'[c] = "close" =>
              /\ c \in rooms[cRoom[c]].clients
              /\ rooms'[cRoom[c]].clients = rooms[cRoom[c]].clients \ {c}
              /\ Cardinality(rooms'[cRoom[c]].clients)
                    = Cardinality(rooms[cRoom[c]].clients) - 1
              /\ \A r \in 1..Len(rooms) :
                    r # cRoom[c] => rooms'[r].clients = rooms[r].clients
        /\ HasLeft(c) =>
              /\ HasLeft(c)'
              /\ ~IsMember(c)'
              /\ Len(sendCh'[c]) <= Len(sendCh[c])
              /\ \A p \in Procs : c \notin lSnap'[p] /\ c \notin lTodo'[p]]_vars

C4_Witness ==
    \E c \in Conns : \E p \in Procs \ {c} :
        /\ HasLeft(c)
        /\ wErr[c]
        /\ BroadcastDone(p)
        /\ lRoom[p] = cRoom[c]
        /\ lEnq[p] # {}
        /\ c \notin lSnap[p]

\* the cleanup of client c is complete
TornDown(c) == ~IsMember(c) /\ chClosed[c] = 1 /\ connClosed[c] = 1

\* C5: once the reader loop of a client has exited (read error or
\* timeout), and likewise once its writer goroutine has returned (write
\* error), the client is eventually out of its room with its channel closed
\* and its connection closed; neither close ever runs a second time, and a
\* client that was torn down stays so.
C5_TeardownOnce ==
    /\ \A c \in Conns : pc[c] = "leave" ~> TornDown(c)
    /\ \A c \in Conns : wpc[c] = "closeConn" ~> TornDown(c)
    /\ \A c \in Conns : wErr[c] ~> TornDown(c)
    /\ [](\A c \in Conns : chClosed[c] <= 1 /\ connClosed[c] <= 1)
    /\ \A c \in Conns : [](TornDown(c) => []TornDown(c))

C5_Witness ==
    \E c \in Conns : TornDown(c) /\ wErr[c] /\ pc[c] = "done" /\ wpc[c] = "done"

\* C6: the registry never holds two rooms of one name: the Room instances
\* ever created have pairwise different names, the registry maps each name
\* to the one instance created for it, and every caller of getRoom, handler
\* or UDP loop, holds the instance the registry has for the name it asked
\* for, however the calls interleave.
C6_OneRoomPerName ==
    /\ \A i, j \in 1..Len(rooms) : rooms[i].name = rooms[j].name => i = j
    /\ DOMAIN hubRooms = {rooms[i].name : i \in 1..Len(rooms)}
    /\ \A n \in DOMAIN hubRooms :
          hubRooms[n] \in 1..Len(rooms) /\ rooms[hubRooms[n]].name = n
    /\ \A p \in Procs :
          /\ lRoom[p] # 0 => lName[p] \in DOMAIN hubRooms /\ lRoom[p] = hubRooms[lName[p]]
          /\ lFound[p] # 0 => lFound[p] = hubRooms[lName[p]]
    /\ \A c \in Conns : cRoom[c] # 0 => cRoom[c] = hubRooms[lName[c]]

C6_Witness ==
    \E p \in Procs : \E q \in Procs \ {p} : \E r \in Procs \ {p, q} :
        /\ lRoom[p] # 0
        /\ pc[q] = "getRoomRet" /\ lName[q] = lName[p] /\ lFound[q] = lRoom[p]
        /\ pc[r] = "getRoom" /\ lName[r] = lName[p]
        /\ Len(rooms) = 1

\* the messages of seq that goroutine s broadcast
FromSender(seq, s) == SelectSeq(seq, LAMBDA m : m.from = s)

\* C7: for a sender S and a recipient R, the envelopes of S written to R's
\* connection, followed by those still in R's channel, are frames S's
\* reader loop read, each at most once and in the order read.
C7_PerSenderFifo ==
    \A s \in Conns : \A r \in Conns :
        LET got == FromSender(Delivered(r), s)
            wrote == FromSender(written[r], s)
        IN  /\ \A i \in 1..Len(got) :
                  /\ got[i].seq \in 1..Len(frameSeq[s])
                  /\ got[i] = frameSeq[s][got[i].seq]
            /\ \A i, j \in 1..Len(got) : i < j => got[i].seq < got[j].seq
            /\ \A i, j \in 1..Len(wrote) : i < j => wrote[i].seq < wrote[j].seq

C7_Witness ==
    \E s \in Conns : \E r \in Conns \ {s} :
        /\ Len(FromSender(written[r], s)) = 2
        /\ Len(frameSeq[s]) = 2

\* the UDP loop has a datagram in hand
UdpBusy == pc[UDP] \in {"ufwd", "getRoom", "getRoomRet", "bcast", "bcIter"}

\* C8: the broadcast the UDP loop makes is for every member of the room:
\* its loop starts over all the members the room has, the room being the
\* one the registry holds for the datagram's room name, and when the loop
\* is over every member was offered the envelope (enqueued, or dropped for
\* a full queue); every datagram processed so far made exactly one such
\* broadcast, in the room and with the user and payload parsed from it.
C8_DatagramBroadcastToAll ==
    /\ pc[UDP] = "bcIter" =>
          /\ lRoom[UDP] = hubRooms[lName[UDP]]
          /\ lSnap[UDP] = rooms[lRoom[UDP]].clients
          /\ lTodo[UDP] \cup lEnq[UDP] \cup lDrop[UDP] = lSnap[UDP]
    /\ BroadcastDone(UDP) =>
          /\ lEnq[UDP] \cup lDrop[UDP] = rooms[lRoom[UDP]].clients
          /\ \A c \in lEnq[UDP] :
                \/ \E i \in 1..Len(Delivered(c)) : Delivered(c)[i] = lMsg[UDP]
                \/ wErr[c]
    /\ Len(injLog) = IF UdpBusy THEN Len(dgLog) - 1 ELSE Len(dgLog)
    /\ \A i \in 1..Len(injLog) :
          LET f == parseUDPFrame(dgLog[i].data)
              name == IF f.room = <<>> THEN StrGlobal ELSE f.room
          IN  /\ name \in DOMAIN hubRooms
              /\ injLog[i].room = hubRooms[name]
              /\ injLog[i].env.room = name
              /\ injLog[i].env.payload = f.payload
              /\ f.user # <<>> => injLog[i].env.username = f.user

C8_Witness ==
    /\ BroadcastDone(UDP)
    /\ Cardinality(lEnq[UDP]) = 2
    /\ \A c \in lEnq[UDP] : sendCh[c] # <<>> /\ sendCh[c][Len(sendCh[c])] = lMsg[UDP]

\* bob's datagram, then carol's, and the UDP loop is through with both
BobThenCarol ==
    /\ dgLog = <<[remote |-> "addr1", data |-> DgBob],
                 [remote |-> "addr2", data |-> DgCarol]>>
    /\ ~UdpBusy

StrAlpha == <<"a","l","p","h","a">>
StrBob == <<"b","o","b">>
StrCarol == <<"c","a","r","o","l">>
StrHi == <<"h","i">>
StrYo == <<"y","o">>

\* both payloads went into room alpha, as one envelope of bob and one of
\* carol
BothInjected ==
    /\ Len(injLog) = 2
    /\ StrAlpha \in DOMAIN hubRooms
    /\ injLog[1].room = hubRooms[StrAlpha]
    /\ injLog[2].room = hubRooms[StrAlpha]
    /\ injLog[1].env.room = StrAlpha /\ injLog[2].env.room = StrAlpha
    /\ injLog[1].env.username = StrBob /\ injLog[1].env.payload = StrHi
    /\ injLog[2].env.username = StrCarol /\ injLog[2].env.payload = StrYo

\* C9 as stated: after ROOM:alpha;USER:bob and then ROOM:alpha;USER:carol,
\* bob's payload was sent to carol's address over UDP, and both payloads
\* were injected into room alpha as envelopes of bob and of carol.
C9_BobPayloadReachesCarol ==
    BobThenCarol =>
        /\ \E i \in 1..Len(udpOut) :
              udpOut[i].payload = StrHi /\ udpOut[i].to = "addr2"
        /\ BothInjected

\* C9, amended: after ROOM:alpha;USER:bob and then ROOM:alpha;USER:carol,
\* the one UDP send made is carol's payload to bob's address (bob's payload,
\* received when the room had no other peer, is sent to nobody, then or
\* later), and both payloads were injected into room alpha as two
\* envelopes, the first of bob and the second of carol.
C9_CarolPayloadReachesBob ==
    /\ dgLog = <<[remote |-> "addr1", data |-> DgBob]>> => udpOut = <<>>
    /\ BobThenCarol =>
          /\ udpOut = <<[user |-> StrBob, to |-> "addr1", payload |-> StrYo, dg |-> 2]>>
          /\ BothInjected

C9_Witness ==
    /\ BobThenCarol
    /\ Len(udpOut) = 1
    /\ Len(injLog) = 2

\* the bytes of a datagram after its first line feed, all of them when it
\* has none
AfterHeader(data) ==
    LET nl == {i \in 1..Len(data) : data[i] = "\n"}
    IN  IF nl = {} THEN data
        ELSE LET first == CHOOSE i \in nl : \A j \in nl : i <= j
             IN  [k \in 1..(Len(data) - first) |-> data[first + k]]

\* C10: while the UDP loop forwards a datagram, the entry of the sending
\* username holds the address the datagram came from; every send made for
\* it goes to the recorded address of another username of the room, with
\* the bytes after the header as payload, no username is sent to twice and
\* the sending username never; when the loop is over, every other
\* username of the room was sent to.
C10_ForwardToOthersOnce ==
    pc[UDP] = "ufwd" =>
        LET room == lName[UDP]
            user == lUser[UDP]
            last == dgLog[Len(dgLog)]
            others == DOMAIN peers[room] \ {user}
            sentTo == {uSent[i].user : i \in 1..Len(uSent)}
        IN  /\ user \in DOMAIN peers[room]
            /\ peers[room][user].addr = last.remote
            /\ uPayload = AfterHeader(last.data)
            /\ \A i \in 1..Len(uSent) :
                  /\ uSent[i].user \in others
                  /\ uSent[i].to = peers[room][uSent[i].user].addr
                  /\ uSent[i].payload = AfterHeader(last.data)
                  /\ uSent[i].dg = Len(dgLog)
            /\ \A i, j \in 1..Len(uSent) : uSent[i].user = uSent[j].user => i = j
            /\ sentTo \cup uTodo = others
            /\ sentTo \cap uTodo = {}
            /\ Len(udpOut) >= Len(uSent)
            /\ SubSeq(udpOut, Len(udpOut) - Len(uSent) + 1, Len(udpOut)) = uSent
            /\ \A i \in 1..(Len(udpOut) - Len(uSent)) : udpOut[i].dg < Len(dgLog)

C10_Witness ==
    /\ pc[UDP] = "ufwd"
    /\ uTodo = {}
    /\ Len(uSent) = 1
    /\ uSent[1].payload = StrYo
    /\ uSent[1].to = "addr1"
    /\ peers[lName[UDP]][lUser[UDP]].addr = "addr2"

\* a datagram without any line feed
NoLineBreak(data) == \A i \in 1..Len(data) : data[i] # "\n"

\* the usernames the UDP loop can generate
GeneratedUdpNames == {<<"u","d","p","-">> \o Itoa(t) : t \in 0..MaxClock}

\* C11: a datagram without a line feed is recorded in the peer table of
\* room global under a generated name udp-<time>, and the broadcast made
\* for it is in the Room the registry holds for global, with an envelope
\* whose room is global, whose username is that generated name and whose
\* payload is the whole datagram; only the datagram in hand has no
\* broadcast yet.
C11_HeaderlessDatagram ==
    \A i \in 1..Len(dgLog) :
        NoLineBreak(dgLog[i].data) =>
            /\ <<"g","l","o","b","a","l">> \in DOMAIN peers
            /\ \E u \in GeneratedUdpNames :
                  /\ u \in DOMAIN peers[<<"g","l","o","b","a","l">>]
                  /\ i <= Len(injLog) => injLog[i].env.username = u
            /\ i > Len(injLog) => i = Len(dgLog) /\ UdpBusy
            /\ i = Len(dgLog) /\ pc[UDP] = "ufwd" =>
                  /\ lName[UDP] = <<"g","l","o","b","a","l">>
                  /\ lUser[UDP] \in GeneratedUdpNames
                  /\ uPayload = dgLog[i].data
            /\ i <= Len(injLog) =>
                  /\ injLog[i].env.room = <<"g","l","o","b","a","l">>
                  /\ injLog[i].env.payload = dgLog[i].data
                  /\ <<"g","l","o","b","a","l">> \in DOMAIN hubRooms
                  /\ injLog[i].room = hubRooms[<<"g","l","o","b","a","l">>]

C11_Witness ==
    /\ Len(injLog) >= 1
    /\ dgLog[1].data = DgRaw
    /\ \E c \in Conns : \E k \in 1..Len(Delivered(c)) :
          /\ Delivered(c)[k].env = injLog[1].env
          /\ Delivered(c)[k].env.payload = <<"r","a","w">>
          /\ Delivered(c)[k].env.username \in GeneratedUdpNames

\* C12: a request at /ws/alpha/bob is answered by HandleWebSocket (never
\* 404) and, once upgraded and joined, its client is a member of the room
\* named alpha under the username bob; a request at /ws, with both
\* segments omitted, joins room global under a generated name anon-<time>.
C12_PathNamesRoomAndUser ==
    \A c \in Conns :
        /\ reqPath[c] = PathWsAlphaBob =>
              /\ status[c] # 404
              /\ pc[c] = "read" =>
                    /\ rooms[cRoom[c]].name = <<"a","l","p","h","a">>
                    /\ cUser[c] = <<"b","o","b">>
                    /\ c \in rooms[cRoom[c]].clients
        /\ reqPath[c] = PathWs /\ pc[c] = "read" =>
              /\ rooms[cRoom[c]].name = <<"g","l","o","b","a","l">>
              /\ cUser[c] \in {<<"a","n","o","n","-">> \o Itoa(t) : t \in 0..MaxClock}
              /\ c \in rooms[cRoom[c]].clients

\* C13: decoding the bytes MarshalEnvelope produced for an envelope
\* succeeds and gives back the room, the username and the payload bytes
\* that went in (and the timestamp), whatever the payload: empty, or with
\* bytes that are not valid UTF-8.
C13_EnvelopeRoundTrip ==
    codec.phase = "out" =>
        /\ codec.out.ok
        /\ codec.out.room = codec.room
        /\ codec.out.username = codec.user
        /\ codec.out.payload = codec.payload
        /\ codec.out.ts = codec.ts

C13_Witness ==
    /\ codec.phase = "out"
    /\ codec.payload = <<255, 128, 0, 65>>
    /\ codec.room = <<"a", "\"", "<">>
    /\ codec.out.payload = <<255, 128, 0, 65>>
    /\ codec.out.room = <<"a", "\"", "<">>
    /\ \E i \in 1..(Len(codec.wire) - 7) :
          SubSeq(codec.wire, i, i + 7) = <<"/", "4", "A", "A", "Q", "Q", "=", "=">>

\* the rooms whose membership set holds client c
RoomsOf(c) == {r \in 1..Len(rooms) : c \in rooms[r].clients}

\* the handler of c is between the end of room.join and the end of
\* room.leave
Joined(c) == pc[c] \in {"read", "bcast", "bcIter", "leave", "leaveIn"}

\* C14: a client is in the membership set of at most one Room, the one it
\* was created for, and it is in that set exactly from the step that ends
\* its join to the step that ends its leave: in no set before, in no set
\* after.
C14_MemberBetweenJoinAndLeave ==
    \A c \in Conns :
        /\ Cardinality(RoomsOf(c)) <= 1
        /\ RoomsOf(c) \subseteq {cRoom[c]}
        /\ Joined(c) <=> RoomsOf(c) # {}
        /\ Joined(c) => RoomsOf(c) = {cRoom[c]} /\ cRoom[c] = hubRooms[lName[c]]

C14_Witness ==
    \E c \in Conns :
        /\ Len(rooms) = 2
        /\ Joined(c)
        /\ pc[c] = "leaveIn"
        /\ written[c] # <<>>
        /\ \E r \in 1..Len(rooms) : r # cRoom[c] /\ c \notin rooms[r].clients

\* the step is one of the teardown of client c: its reader loop exits or
\* its handler cleans up, or its writer goroutine fails, returns or closes
\* the connection
TeardownStep(c) ==
    \/ pc[c] = "read" /\ pc'[c] = "leave"
    \/ pc[c] = "leave" /\ pc'[c] = "leaveIn"
    \/ pc[c] = "leave" /\ c \in roomMu'[lRoom[c]].q \ roomMu[lRoom[c]].q
    \/ pc[c] = "leaveIn" /\ pc'[c] = "close"
    \/ pc[c] = "close" /\ pc'[c] = "done"
    \/ wpc[c] = "range" /\ wpc'[c] = "closeConn"
    \/ wpc[c] = "closeConn" /\ wpc'[c] = "done"

\* client c is being or was torn down
InTeardown(c) ==
    /\ status[c] = 101
    /\ pc[c] \in {"leave", "leaveIn", "close", "done"} \/ wpc[c] \in {"closeConn", "done"}

\* C15: a step of the teardown of one client changes nothing of any other
\* client: not its membership, not the contents of its channel, not
\* whether its channel or its connection is closed, not where its handler
\* and its writer stand; and no more clients are ever in teardown than
\* transport errors have struck.
C15_ErrorStaysLocal ==
    /\ [](Cardinality({c \in Conns : InTeardown(c)}) <= nFaults)
    /\ [][\A c \in Conns : TeardownStep(c) =>
            \A d \in Conns \ {c} :
                /\ sendCh'[d] = sendCh[d]
                /\ chClosed'[d] = chClosed[d]
                /\ connClosed'[d] = connClosed[d]
                /\ pc'[d] = pc[d]
                /\ wpc'[d] = wpc[d]
                /\ written'[d] = written[d]
                /\ \A r \in 1..Len(rooms) :
                      d \in rooms'[r].clients <=> d \in rooms[r].clients]_vars

C15_Witness ==
    \E c \in Conns : \E d \in Conns \ {c} :
        /\ TornDown(c)
        /\ wErr[c]
        /\ IsMember(d)
        /\ chClosed[d] = 0 /\ connClosed[d] = 0
        /\ pc[d] = "read" /\ wpc[d] = "range"
        /\ written[d] # <<>>

\* the username the UDP loop used for the i-th datagram
UdpUserOf(i) == IF i <= Len(injLog) THEN injLog[i].env.username ELSE lUser[UDP]

\* the address on record for username u when the i-th datagram arrived
AddrBefore(u, i) ==
    LET js == {j \in 1..(i - 1) : UdpUserOf(j) = u}
    IN  dgLog[CHOOSE j \in js : \A k \in js : k <= j].remote

\* C16: a datagram whose header line has a part without a colon, only an
\* unknown key, or empty ROOM and USER values is handled like any other:
\* it is recorded in the peer table of room global under a generated name,
\* its bytes after the header are sent to the address of every other name
\* then on record, and broadcast in room global in an envelope of that
\* generated name; the loop then reads on, and it ends on a read error
\* only.
C16_MalformedHeaderDegrades ==
    /\ pc[UDP] = "udone" => udpClosed = 1 /\ nFaults >= 1
    /\ pc[UDP] \in {"uread", "udone"} \/ UdpBusy
    /\ Len(injLog) = IF UdpBusy THEN Len(dgLog) - 1 ELSE Len(dgLog)
    /\ \A i \in 1..Len(dgLog) :
          dgLog[i].data \in {DgNoColon, DgUnknownKey, DgEmptyValues} =>
              /\ <<"g","l","o","b","a","l">> \in DOMAIN peers
              /\ UdpUserOf(i) \in GeneratedUdpNames
              /\ UdpUserOf(i) \in DOMAIN peers[<<"g","l","o","b","a","l">>]
              /\ \A k \in 1..Len(udpOut) : udpOut[k].dg = i =>
                    /\ udpOut[k].payload = AfterHeader(dgLog[i].data)
                    /\ udpOut[k].user # UdpUserOf(i)
                    /\ udpOut[k].to = AddrBefore(udpOut[k].user, i)
              /\ i <= Len(injLog) =>
                    /\ injLog[i].env.room = <<"g","l","o","b","a","l">>
                    /\ injLog[i].env.payload = AfterHeader(dgLog[i].data)
                    /\ injLog[i].room = hubRooms[<<"g","l","o","b","a","l">>]
                    /\ \A j \in 1..(i - 1) : UdpUserOf(j) # UdpUserOf(i) =>
                          \E k \in 1..Len(udpOut) :
                              udpOut[k].dg = i /\ udpOut[k].user = UdpUserOf(j)

C16_Witness ==
    /\ pc[UDP] = "uread"
    /\ Len(injLog) = 2
    /\ dgLog[1] = [remote |-> "addr1", data |-> DgNoColon]
    /\ dgLog[2] = [remote |-> "addr2", data |-> DgEmptyValues]
    /\ udpOut = <<[user |-> injLog[1].env.username, to |-> "addr1",
                    payload |-> <<"z">>, dg |-> 2]>>
    /\ injLog[2].env.payload = <<"z">>

\* C17: the registry starts empty; a name enters it only in the step
\* that ends a getRoom call for that name, and from then on the name
\* stays mapped to the same Room instance, which keeps its name, also
\* once the room's last member has left.
C17_RoomsPersist ==
    /\ [](hubRooms # <<>> => Len(rooms) >= 1)
    /\ [][/\ \A n \in DOMAIN hubRooms :
                n \in DOMAIN hubRooms' /\ hubRooms'[n] = hubRooms[n]
          /\ \A n \in DOMAIN hubRooms' \ DOMAIN hubRooms :
                \E p \in Procs : /\ pc[p] = "getRoomRet"
                                 /\ lName[p] = n
                                 /\ lRoom'[p] = hubRooms'[n]
          /\ Len(rooms') >= Len(rooms)
          /\ \A r \in 1..Len(rooms) : rooms'[r].name = rooms[r].name]_vars

C17_Witness ==
    \E c \in Conns :
        /\ HasLeft(c)
        /\ pc[c] = "done"
        /\ <<"g","l","o","b","a","l">> \in DOMAIN hubRooms
        /\ hubRooms[<<"g","l","o","b","a","l">>] = cRoom[c]
        /\ rooms[cRoom[c]].clients = {}
        /\ pc[UDP] = "bcIter" /\ lRoom[UDP] = cRoom[c]

\* the goroutines inside join or leave of room r, the map in their hands
Mutators(r) == {c \in Conns : pc[c] \in {"joinIn", "leaveIn"} /\ lRoom[c] = r}

\* the goroutines inside the range loop of a broadcast in room r
Enumerators(r) == {p \in Procs : pc[p] = "bcIter" /\ lRoom[p] = r}

\* C18: no join or leave has the membership map of a room in its hands
\* while a broadcast ranges over it, and no two of them at once, whereas
\* broadcasts may range over it together; all the while a broadcast ranges
\* over the map, the map is what it was when the loop started, so every
\* client is in it for the whole loop or not at all.
C18_MembershipExclusion ==
    /\ [](\A r \in 1..Len(rooms) :
            /\ Mutators(r) # {} => Enumerators(r) = {}
            /\ Cardinality(Mutators(r)) <= 1
            /\ \A p \in Enumerators(r) : lSnap[p] = rooms[r].clients)
    /\ [][\A p \in Procs :
            pc[p] = "bcIter" /\ pc'[p] = "bcIter" =>
                rooms'[lRoom[p]].clients = rooms[lRoom[p]].clients]_vars

C18_Witness ==
    \E r \in 1..Len(rooms) : \E c \in Conns :
        /\ Cardinality(Enumerators(r)) = 2
        /\ pc[c] = "leave"
        /\ lRoom[c] = r
        /\ c \in roomMu[r].q
        /\ c \in rooms[r].clients

\* goroutine p holds the Hub mutex
HoldsHub(p) == hubMu = p

\* goroutine p holds the mutex of some room, as a writer or as a reader
HoldsRoom(p) == \E r \in 1..Len(roomMu) : roomMu[r].w = p \/ p \in roomMu[r].r

\* goroutine p holds the mutex of the peer table (only the UDP loop
\* takes it)
HoldsPeers(p) == p = UDP /\ peerMu = UDP

\* goroutine p is inside a call that acquires a room mutex
AcquiresRoom(p) ==
    \/ pc[p] \in {"join", "leave", "bcast"}
    \/ \E r \in 1..Len(roomMu) : p \in roomMu[r].q

\* C19: no network I/O happens under a lock: a step in which a frame is
\* read from a connection is taken by a handler holding neither the Hub
\* mutex nor a room mutex, a step in which a message is written to a
\* connection is taken by the writer goroutine, which takes no mutex at
\* all, and a step in which a datagram is received or sent is taken with
\* the peer table's mutex free.
C19_NoLockAcrossIO ==
    [][/\ \A c \in Conns :
            /\ frameSeq'[c] # frameSeq[c] =>
                  /\ ~HoldsHub(c) /\ ~HoldsRoom(c)
                  /\ roomMu' = roomMu /\ hubMu' = hubMu
            /\ written'[c] # written[c] \/ wErr'[c] # wErr[c] =>
                  /\ wpc[c] = "range"
                  /\ pc' = pc
                  /\ roomMu' = roomMu /\ hubMu' = hubMu /\ peerMu' = peerMu
       /\ dgLog' # dgLog => ~HoldsPeers(UDP) /\ ~HoldsHub(UDP) /\ ~HoldsRoom(UDP)
       /\ udpOut' # udpOut => ~HoldsPeers(UDP)]_vars

\* C20: the UDP loop never has the peer table's mutex together with the
\* Hub mutex or a room mutex, held or being acquired: it is in the forward
\* pass, and nowhere else, while it holds the peer table's mutex; and no
\* goroutine has the Hub mutex while it holds or acquires a room mutex: it
\* is inside getRoom, and nowhere else, while it holds the Hub mutex.
C20_LockDomainsNeverNest ==
    \A p \in Procs :
        /\ HoldsPeers(p) => /\ ~HoldsHub(p) /\ ~HoldsRoom(p) /\ ~AcquiresRoom(p)
                            /\ pc[p] = "ufwd"
        /\ HoldsHub(p) => /\ ~HoldsRoom(p) /\ ~AcquiresRoom(p)
                          /\ pc[p] = "getRoomRet"
        /\ HoldsRoom(p) \/ AcquiresRoom(p) => ~HoldsHub(p) /\ ~HoldsPeers(p)
        /\ pc[p] \in {"getRoom", "getRoomRet"} => ~HoldsPeers(p) /\ ~HoldsRoom(p)

C20_Witness ==
    /\ HoldsHub(UDP)
    /\ peerMu = None
    /\ udpOut # <<>>
    /\ \E c \in Conns : HoldsRoom(c) /\ pc[c] = "leaveIn"
    /\ \E c \in Conns : pc[c] = "getRoom"

\* a channel after a receive, an empty one as it is
Rest(q) == IF q = <<>> THEN q ELSE Tail(q)

\* C21: once a client's channel is closed nothing is added to it, and
\* its writer takes the pending messages off its head one by one, each
\* one written to the connection in that order unless the write fails; the
\* writer leaves its loop only when the channel is closed and empty or
\* when a write failed, then closes the connection; and a closed channel
\* always leads to the writer having returned with the connection closed,
\* every pending message written if no write failed.
C21_WriterDrainsThenExits ==
    /\ \A c \in Conns : chClosed[c] = 1 ~> (wpc[c] = "done" /\ connClosed[c] = 1)
    /\ [](\A c \in Conns :
            /\ wpc[c] \in {"closeConn", "done"} =>
                  wErr[c] \/ (chClosed[c] = 1 /\ sendCh[c] = <<>>)
            /\ wpc[c] = "done" <=> connClosed[c] = 1)
    /\ [][\A c \in Conns :
            /\ chClosed[c] = 1 =>
                  /\ sendCh'[c] \in {sendCh[c], Rest(sendCh[c])}
                  /\ ~wErr'[c] => written'[c] \o sendCh'[c] = written[c] \o sendCh[c]
                  /\ wErr'[c] /\ ~wErr[c] =>
                        /\ written'[c] = written[c]
                        /\ sendCh[c] # <<>>
                        /\ sendCh'[c] = Rest(sendCh[c])
            /\ wpc[c] = "range" /\ wpc'[c] # "range" =>
                  /\ wpc'[c] = "closeConn"
                  /\ \/ chClosed[c] = 1 /\ sendCh[c] = <<>> /\ wErr'[c] = wErr[c]
                     \/ wErr'[c] /\ ~wErr[c]]_vars

C21_Witness ==
    \E c \in Conns :
        /\ chClosed[c] = 1
        /\ wpc[c] = "range"
        /\ ~wErr[c]
        /\ Len(written[c]) = 1
        /\ Len(sendCh[c]) = 1
        /\ written[c][1].seq < sendCh[c][1].seq

\* the value of the last part of a header line that stands for key k, the
\* empty string when no part does
RECURSIVE LastValue(_, _)
LastValue(ps, k) ==
    IF ps = <<>> THEN <<>>
    ELSE IF ps[Len(ps)].key = k THEN ps[Len(ps)].val
    ELSE LastValue(SubSeq(ps, 1, Len(ps) - 1), k)

\* C22: parseUDPFrame cuts a datagram at its first line break. The line
\* before it is a list of KEY:value parts separated by semicolons: the room
\* is the value of the (last) part whose key reads ROOM in any letter case,
\* the user that of the part whose key reads USER, and parts with any other
\* key or without a colon change nothing. The payload is exactly the bytes
\* after that first line break. A datagram without a line break has an
\* empty room and user and is its own payload.
C22_ParseUDPFrame ==
    parsed.phase = "out" =>
        IF parsed.brk
        THEN /\ parsed.out.room = LastValue(parsed.parts, "ROOM")
             /\ parsed.out.user = LastValue(parsed.parts, "USER")
             /\ parsed.out.payload = parsed.payload
        ELSE /\ parsed.out.room = <<>>
             /\ parsed.out.user = <<>>
             /\ parsed.out.payload = parsed.data

C22_Witness ==
    /\ parsed.phase = "out"
    /\ parsed.data = <<"F","O","O",":","x",";"," ","R","o","o","m"," ",":"," ","c"," ",";",
                       "u","S","e","R",":","v","\n","a","\n","b">>
    /\ parsed.out.room = <<"c">>
    /\ parsed.out.user = <<"v">>
    /\ parsed.out.payload = <<"a","\n","b">>

\* the room the i-th datagram is for: the ROOM of its header, global
\* without one
RoomOfDg(i) ==
    LET f == parseUDPFrame(dgLog[i].data)
    IN  IF f.room = <<>> THEN StrGlobal ELSE f.room

\* C23: rooms are isolated. Every envelope that reached a client's
\* channel names the room the client belongs to, and came from a stream
\* client of that same Room or from a datagram for that room; an envelope
\* is added to a channel only by the broadcast loop of a goroutine whose
\* Room holds the client and is the Room registered under the envelope's
\* room name. Every forward of a datagram goes to an address that an
\* earlier datagram for the same room arrived from.
C23_RoomsIsolated ==
    /\ [](\A c \in Conns : \A i \in 1..Len(Delivered(c)) :
            LET m == Delivered(c)[i]
            IN  /\ cRoom[c] # 0
                /\ m.env.room = rooms[cRoom[c]].name
                /\ m.from = UDP => RoomOfDg(m.seq) = rooms[cRoom[c]].name
                /\ m.from # UDP => cRoom[m.from] = cRoom[c])
    /\ [](\A k \in 1..Len(udpOut) :
            \E j \in 1..(udpOut[k].dg - 1) :
                /\ RoomOfDg(j) = RoomOfDg(udpOut[k].dg)
                /\ dgLog[j].remote = udpOut[k].to)
    /\ [][\A c \in Conns :
            Len(sendCh'[c]) > Len(sendCh[c]) =>
                \E p \in Procs :
                    /\ pc[p] = "bcIter"
                    /\ sendCh'[c] = Append(sendCh[c], lMsg[p])
                    /\ c \in rooms[lRoom[p]].clients
                    /\ lMsg[p].env.room \in DOMAIN hubRooms
                    /\ hubRooms[lMsg[p].env.room] = lRoom[p]]_vars

C23_Witness ==
    /\ dgLog = <<[remote |-> "addr1", data |-> DgBob],
                 [remote |-> "addr2", data |-> DgRaw],
                 [remote |-> "addr4", data |-> DgRaw]>>
    /\ Len(injLog) = 3
    /\ Len(udpOut) = 1
    /\ udpOut[1].to = "addr2" /\ udpOut[1].dg = 3
    /\ \E c \in Conns :
          /\ IsMember(c)
          /\ Len(Delivered(c)) = 2
          /\ \A i \in 1..2 : Delivered(c)[i].env.room = StrGlobal
          /\ Delivered(c)[1].seq = 2 /\ Delivered(c)[2].seq = 3

\* goroutine p is inside getRoom, join, leave or broadcast
InGetRoom(p) == pc[p] \in {"getRoom", "getRoomRet"}
InJoin(p) == pc[p] \in {"join", "joinIn"}
InLeave(p) == pc[p] \in {"leave", "leaveIn"}
InBroadcast(p) == pc[p] \in {"bcast", "bcIter"}

\* goroutine p, holding a room mutex, can take its next step
RoomHolderCanStep(p) ==
    \/ ENABLED JoinUnlock(p)
    \/ ENABLED LeaveUnlock(p)
    \/ ENABLED BroadcastRUnlock(p)
    \/ \E c \in Conns : ENABLED BroadcastOffer(p, c)

\* C24: the relay does not deadlock. Whatever the interleaving, every
\* call of getRoom, join, leave and broadcast returns, every lock a
\* goroutine holds (Hub, Room, peer table) is released again, and a
\* goroutine that holds a lock always has a step it can take without
\* waiting for anybody, so that no goroutine waits on a lock forever.
C24_NoDeadlock ==
    /\ \A p \in Procs : InGetRoom(p) ~> ~InGetRoom(p)
    /\ \A p \in Procs : InJoin(p) ~> pc[p] = "read"
    /\ \A p \in Procs : InLeave(p) ~> pc[p] \in {"close", "done"}
    /\ \A p \in Procs : InBroadcast(p) ~> pc[p] \in {"read", "uread"}
    /\ \A p \in Procs : HoldsHub(p) ~> ~HoldsHub(p)
    /\ \A p \in Procs : HoldsRoom(p) ~> ~HoldsRoom(p)
    /\ \A p \in Procs : AcquiresRoom(p) ~> ~AcquiresRoom(p)
    /\ HoldsPeers(UDP) ~> ~HoldsPeers(UDP)
    /\ [](\A p \in Procs :
            /\ HoldsHub(p) => ENABLED GetRoomReturn(p)
            /\ HoldsRoom(p) => RoomHolderCanStep(p)
            /\ HoldsPeers(p) => ENABLED UdpStep)

\* a handler waits in Lock, on its way out of its room, for the room
\* mutex that the broadcast of a datagram holds
C24_Witness ==
    \E c \in Conns :
        /\ pc[c] = "leave"
        /\ c \in roomMu[cRoom[c]].q
        /\ UDP \in roomMu[cRoom[c]].r
        /\ pc[UDP] = "bcIter"
        /\ lTodo[UDP] = {c}

\* the datagrams among the first i that were for room r under username u
DgsOf(r, u, i) == {j \in 1..i : j <= Len(dgLog) /\ RoomOfDg(j) = r /\ UdpUserOf(j) = u}

\* the address the latest of them came from
LatestAddr(r, u, i) ==
    LET js == DgsOf(r, u, i)
    IN  dgLog[CHOOSE j \in js : \A k \in js : k <= j].remote

\* C25: the peer table has one entry for every (room, username) that a
\* datagram arrived under, holding the address the latest of these
\* datagrams came from, and no entry is ever removed. Every forward of a
\* datagram goes to a username other than the sender's, at the address its
\* latest earlier datagram in that room came from: an address that was
\* replaced gets nothing more under that username, and peers that share a
\* username in a room get nothing from each other.
C25_PeerTable ==
    /\ [](/\ DOMAIN peers = {RoomOfDg(j) : j \in 1..Len(dgLog)}
          /\ \A r \in DOMAIN peers :
                /\ DOMAIN peers[r] =
                      {UdpUserOf(j) : j \in {i \in 1..Len(dgLog) : RoomOfDg(i) = r}}
                /\ \A u \in DOMAIN peers[r] :
                      peers[r][u].addr = LatestAddr(r, u, Len(dgLog)))
    /\ [](\A k \in 1..Len(udpOut) :
            LET o == udpOut[k]
                r == RoomOfDg(o.dg)
            IN  /\ o.user # UdpUserOf(o.dg)
                /\ DgsOf(r, o.user, o.dg - 1) # {}
                /\ o.to = LatestAddr(r, o.user, o.dg - 1))
    /\ [][\A r \in DOMAIN peers :
            /\ r \in DOMAIN peers'
            /\ DOMAIN peers[r] \subseteq DOMAIN peers'[r]]_vars

C25_Witness ==
    /\ dgLog = <<[remote |-> "addr1", data |-> DgBob],
                 [remote |-> "addr3", data |-> DgBob],
                 [remote |-> "addr2", data |-> DgCarol]>>
    /\ pc[UDP] = "uread"
    /\ DOMAIN peers = {StrAlpha}
    /\ DOMAIN peers[StrAlpha] = {StrBob, StrCarol}
    /\ peers[StrAlpha][StrBob].addr = "addr3"
    /\ Len(udpOut) = 1
    /\ udpOut[1].to = "addr3" /\ udpOut[1].dg = 3 /\ udpOut[1].payload = StrYo

====
